---- MODULE Spec2Model ----
(***************************************************************************)
(* Model of the interactive viewport, clustering and gesture engine of     *)
(* src/components/Heatmap.tsx.                                             *)
(*                                                                         *)
(* Numbers.  The component computes with JavaScript doubles.  The model    *)
(* computes with exact rationals <<n, d>> (d > 0, lowest terms), i.e. it   *)
(* is the real-arithmetic reading of the code: rounding error of doubles   *)
(* is not modelled.  Pixel coordinates and point coordinates are integers. *)
(***************************************************************************)
EXTENDS Integers, Sequences, FiniteSets, TLC

\* ------------------------------------------------------------------ bounds
MaxPoints == 4        \* longest point sequence drawn for the clustering function
MaxSteps  == 2        \* viewport-changing operations per behaviour

\* ------------------------------------------------------- exact arithmetic
Abs(n) == IF n < 0 THEN -n ELSE n

RECURSIVE GCD(_, _)
GCD(a, b) == IF b = 0 THEN a ELSE GCD(b, a % b)

\* the rational n/d in lowest terms with a positive denominator
R(n, d) ==
  LET g == GCD(Abs(n), Abs(d))
      s == IF d < 0 THEN -1 ELSE 1
  IN  <<(s * n) \div g, (s * d) \div g>>

I(n) == <<n, 1>>

RAdd(a, b) ==
  LET g == GCD(a[2], b[2])
  IN  R(a[1] * (b[2] \div g) + b[1] * (a[2] \div g), (a[2] \div g) * b[2])

RNeg(a) == <<-a[1], a[2]>>

RSub(a, b) == RAdd(a, RNeg(b))

RMul(a, b) ==
  LET g1 == GCD(Abs(a[1]), b[2])
      g2 == GCD(Abs(b[1]), a[2])
  IN  R((a[1] \div g1) * (b[1] \div g2), (a[2] \div g2) * (b[2] \div g1))

RDiv(a, b) == RMul(a, IF b[1] < 0 THEN <<-b[2], -b[1]>> ELSE <<b[2], b[1]>>)

RLt(a, b) ==
  LET g == GCD(a[2], b[2])
  IN  a[1] * (b[2] \div g) < b[1] * (a[2] \div g)

RLe(a, b) == ~RLt(b, a)

RAbs(a) == <<Abs(a[1]), a[2]>>

RMax(a, b) == IF RLt(a, b) THEN b ELSE a

\* largest s with s*s <= n
RECURSIVE IsqrtFrom(_, _)
IsqrtFrom(n, s) == IF (s + 1) * (s + 1) > n THEN s ELSE IsqrtFrom(n, s + 1)

Isqrt(n) == IsqrtFrom(n, 0)

\* ------------------------------------------------------------------- state
VARIABLES
  targetAreas,        \* prop: sequence of [id, x, y, description]
  width, height,      \* props: container pixel size
  viewBox,            \* [x, y, w, h], rationals
  isDragging,         \* useState(false)
  dragStart,          \* [x, y] pixel of the last recorded pointer position
  dragDistanceRef,    \* accumulated |dx| + |dy| since the last primary press
  selectedTargetId,   \* 0 stands for null
  isEditing,
  editDescription,
  clickArmed,         \* browser: a primary press/release pair awaits its click event
  steps,              \* number of viewport-changing operations so far
  last,               \* record of the operation that last set the viewBox
  analysisTargets,    \* App: analysisResult.targetAreas, the owner's point list
  activeFilters,      \* ResultsDashboard: [high, medium, low] probability filters
  disabledTags,       \* ResultsDashboard: set of switched-off signature tags
  commits,            \* the calls onUpdateTarget(id, text) made so far, in order
  saves,              \* number of Save requests (button or modifier+Enter) so far
  ui                  \* record of the selection/annotation handler that ran last

vars == <<targetAreas, width, height, viewBox, isDragging, dragStart,
          dragDistanceRef, selectedTargetId, isEditing, editDescription,
          clickArmed, steps, last, analysisTargets, activeFilters, disabledTags,
          commits, saves, ui>>

appVars == <<analysisTargets, activeFilters, disabledTags, commits, saves>>

Range(s) == {s[i] : i \in 1..Len(s)}

\* ------------------------------------------------------------- clustering
Positions == {<<0, 0>>, <<0, 4>>, <<8, 0>>, <<12, 0>>}
Widths    == {20, 50, 100}

Point(i, pos) ==
  [id |-> i, x |-> pos[1], y |-> pos[2], probability |-> 50, description |-> "d0"]

\* mutant of SortByX: the points are processed in input order
SortByXNone(s) == s

\* [...targetAreas].sort((a, b) => a.x - b.x): stable, ties keep input order
RECURSIVE SortByX(_)
SortByX(s) ==
  IF s = <<>> THEN <<>>
  ELSE LET front == SortByX(SubSeq(s, 1, Len(s) - 1))
           p     == s[Len(s)]
           k     == Cardinality({i \in 1..Len(front) : front[i].x - p.x <= 0})
       IN  SubSeq(front, 1, k) \o <<p>> \o SubSeq(front, k + 1, Len(front))

\* mutant of Threshold: twice the factor
ThresholdWide(w) == RMul(w, <<4, 25>>)

\* const threshold = viewBox.w * 0.08
Threshold(w) == RMul(w, <<2, 25>>)

\* mutant of DistLe: the comparison is turned around (dist >= threshold)
DistLeInverted(p, n, t) ==
  LET d2 == (n.x - p.x) * (n.x - p.x) + (n.y - p.y) * (n.y - p.y)
  IN  d2 * t[2] * t[2] >= t[1] * t[1]

\* Math.sqrt((n.x - p.x)^2 + (n.y - p.y)^2) <= t, decided without the root
DistLe(p, n, t) ==
  LET d2 == (n.x - p.x) * (n.x - p.x) + (n.y - p.y) * (n.y - p.y)
      s  == Isqrt(d2)
  IN  IF s * s = d2 THEN RLe(I(s), t)
      ELSE IF RLe(I(s + 1), t) THEN TRUE
      ELSE IF RLe(t, I(s)) THEN FALSE
      ELSE d2 * t[2] * t[2] <= t[1] * t[1]

\* mutant of MarkUsed: the id is not recorded
MarkUsedForgotten(used, id) == used

\* used.add(id)
MarkUsed(used, id) == used \cup {id}

\* the inner loop over j: collects the unused neighbours of the seed p
RECURSIVE ScanNeighbors(_, _, _, _, _, _)
ScanNeighbors(sorted, p, j, clusterPoints, used, t) ==
  IF j > Len(sorted) THEN [points |-> clusterPoints, used |-> used]
  ELSE LET neighbor == sorted[j]
       IN  IF neighbor.id \in used
             THEN ScanNeighbors(sorted, p, j + 1, clusterPoints, used, t)
           ELSE IF DistLe(p, neighbor, t)
             THEN ScanNeighbors(sorted, p, j + 1, Append(clusterPoints, neighbor),
                                MarkUsed(used, neighbor.id), t)
           ELSE ScanNeighbors(sorted, p, j + 1, clusterPoints, used, t)

RECURSIVE SumX(_)
SumX(s) == IF s = <<>> THEN 0 ELSE s[1].x + SumX(Tail(s))

RECURSIVE SumY(_)
SumY(s) == IF s = <<>> THEN 0 ELSE s[1].y + SumY(Tail(s))

MakeCluster(p, clusterPoints) ==
  [id        |-> <<IF Len(clusterPoints) > 1 THEN "cluster" ELSE "point", p.id>>,
   x         |-> R(SumX(clusterPoints), Len(clusterPoints)),
   y         |-> R(SumY(clusterPoints), Len(clusterPoints)),
   points    |-> clusterPoints,
   isCluster |-> Len(clusterPoints) > 1]

\* the outer loop over i
RECURSIVE BuildClusters(_, _, _, _, _)
BuildClusters(sorted, i, used, result, t) ==
  IF i > Len(sorted) THEN result
  ELSE LET p == sorted[i]
       IN  IF p.id \in used THEN BuildClusters(sorted, i + 1, used, result, t)
           ELSE LET r == ScanNeighbors(sorted, p, i + 1, <<p>>, MarkUsed(used, p.id), t)
                IN  BuildClusters(sorted, i + 1, r.used,
                                  Append(result, MakeCluster(p, r.points)), t)

clustersOf(areas, w) == BuildClusters(SortByX(areas), 1, {}, <<>>, Threshold(w))

clusters == clustersOf(targetAreas, viewBox.w)

\* ------------------------------------------------------------ base rectangle
\* the doubles that are no rationals: R(n, 0) is <<1, 0>> or <<-1, 0>>
PosInf == <<1, 0>>
NegInf == <<-1, 0>>
NaN    == <<0, 0>>

\* width / height; 0 / 0 is NaN, n / 0 is +-Infinity
aspectOf(wd, ht) == IF wd = 0 /\ ht = 0 THEN NaN ELSE R(wd, ht)

aspect == aspectOf(width, height)

\* mutant of getBaseViewBox: the test on the aspect is the other way round, which
\* gives the largest rectangle of that shape inside the square
getBaseViewBoxInside(wd, ht) ==
  LET a == aspectOf(wd, ht)
      w == IF RLt(a, I(1)) THEN RMul(I(100), a) ELSE I(100)
      h == IF RLt(a, I(1)) THEN I(100) ELSE RDiv(I(100), a)
  IN  [x |-> RSub(I(50), RDiv(w, I(2))), y |-> RSub(I(50), RDiv(h, I(2))),
       w |-> w, h |-> h]

\* with the aspect NaN the test aspect > 1 fails and h = 100 / NaN; with the
\* aspect -0 (width 0, height negative) h = 100 / -0 = -Infinity
getBaseViewBox(wd, ht) ==
  IF wd = 0 /\ ht = 0 THEN [x |-> I(0), y |-> NaN, w |-> I(100), h |-> NaN]
  ELSE IF wd = 0 /\ ht < 0 THEN [x |-> I(0), y |-> PosInf, w |-> I(100), h |-> NegInf]
  ELSE
  LET a == aspectOf(wd, ht)
      w == IF RLt(I(1), a) THEN RMul(I(100), a) ELSE I(100)
      h == IF RLt(I(1), a) THEN I(100) ELSE RDiv(I(100), a)
  IN  [x |-> RSub(I(50), RDiv(w, I(2))), y |-> RSub(I(50), RDiv(h, I(2))),
       w |-> w, h |-> h]

base == getBaseViewBox(width, height)

\* ------------------------------------------------------------ inputs drawn
Containers == {<<600, 400>>, <<400, 600>>, <<2000, 200>>}

\* five points on the line x = 50
LinePoints ==
  <<[id |-> 1, x |-> 50, y |-> 50, probability |-> 90, description |-> "d1"],
    [id |-> 2, x |-> 50, y |-> 10, probability |-> 50, description |-> "d2"],
    [id |-> 3, x |-> 50, y |-> 90, probability |-> 50, description |-> "d3"],
    [id |-> 4, x |-> 50, y |-> 5,  probability |-> 20, description |-> "d4"],
    [id |-> 5, x |-> 50, y |-> 95, probability |-> 20, description |-> "d5"]>>

PointSets == {LinePoints}

\* e.deltaY, a rational
WheelDeltas == {<<-100, 1>>, <<100, 1>>}

WheelPixels(wd, ht) == {<<0, 0>>, <<wd \div 2, ht \div 2>>, <<wd, ht>>}

PointerPixels(wd, ht) == {<<0, 0>>, <<wd, ht>>}

Buttons == {0, 2}

\* ------------------------------------------------------- render projection
\* mutant of DataAt: the origin of the viewBox is left out
DataAtNoOrigin(origin, extent, px, size) == RMul(R(px, size), extent)

\* data-space coordinate under pixel px: viewBox.x + (mx / width) * viewBox.w
DataAt(origin, extent, px, size) == RAdd(origin, RMul(R(px, size), extent))

\* -------------------------------------------------------------- handleWheel
Sign(n) == IF n > 0 THEN 1 ELSE IF n < 0 THEN -1 ELSE 0

Min(a, b) == IF a < b THEN a ELSE b

\* mutant of wheelFactor: the magnitude of deltaY is not limited to 100
wheelFactorUnclamped(deltaY) == R(1000 * deltaY[2] + deltaY[1], 1000 * deltaY[2])

\* delta = Math.sign(dy) * Math.min(Math.abs(dy), 100); factor = 1 + delta * 0.001,
\* for dy = n/d: (1000 * d + sign(n) * min(|n|, 100 * d)) / (1000 * d)
wheelFactor(deltaY) ==
  R(1000 * deltaY[2] + Sign(deltaY[1]) * Min(Abs(deltaY[1]), 100 * deltaY[2]),
    1000 * deltaY[2])

\* mutant of ScaleAround: the rectangle is scaled around its centre
ScaleAroundCentre(svg, px, size, newExtent) == RSub(svg, RMul(<<1, 2>>, newExtent))

\* newX = svgX - (mx / width) * newW: keeps the data point svg under pixel px
ScaleAround(svg, px, size, newExtent) == RSub(svg, RMul(R(px, size), newExtent))

\* mutant of ClampOrigin: the check of the high side is missing
ClampOriginLowOnly(v, lo, hi, extent) == IF RLt(v, lo) THEN lo ELSE v

\* the two boundary checks of one axis, low side first
ClampOrigin(v, lo, hi, extent) ==
  LET v1 == IF RLt(v, lo) THEN lo ELSE v
  IN  IF RLt(hi, RAdd(v1, extent)) THEN RSub(hi, extent) ELSE v1

\* mutant of SnapsToBase: no snap
SnapsToBaseNever(newW, baseW) == FALSE

\* if (Math.abs(newW - base.w) < 0.1) return base
SnapsToBase(newW, baseW) == RLt(RAbs(RSub(newW, baseW)), <<1, 10>>)

\* the updater of handleWheel from the new size on: the origin that keeps the
\* data point under the cursor, the limits on it and the snap
WheelPlaced(svgX, svgY, mx, my, wd, ht, b, newW, newH, factor, clamped) ==
  LET x0      == ScaleAround(svgX, mx, wd, newW)
      y0      == ScaleAround(svgY, my, ht, newH)
      bufferX == RMul(b.w, <<1, 2>>)
      bufferY == RMul(b.h, <<1, 2>>)
      loX     == RSub(b.x, bufferX)
      loY     == RSub(b.y, bufferY)
      hiX     == RAdd(RAdd(b.x, b.w), bufferX)
      hiY     == RAdd(RAdd(b.y, b.h), bufferY)
      newX    == ClampOrigin(x0, loX, hiX, newW)
      newY    == ClampOrigin(y0, loY, hiY, newH)
      snap    == SnapsToBase(newW, b.w)
  IN  [box           |-> IF snap THEN b ELSE [x |-> newX, y |-> newY, w |-> newW, h |-> newH],
       factor        |-> factor,
       widthClamped  |-> clamped,
       originClamped |-> newX # x0 \/ newY # y0,
       snapped       |-> snap]

\* the updater of handleWheel up to the new size: scaled, at most the base
\* size, at least 2 wide
WheelSized(prev, factor, mx, my, wd, ht, a, b) ==
  LET w0    == RMul(prev.w, factor)
      h0    == RMul(prev.h, factor)
      over  == RLt(b.w, w0)
      w1    == IF over THEN b.w ELSE w0
      h1    == IF over THEN b.h ELSE h0
      under == RLt(w1, I(2))
  IN  WheelPlaced(DataAt(prev.x, prev.w, mx, wd), DataAt(prev.y, prev.h, my, ht),
                  mx, my, wd, ht, b,
                  IF under THEN I(2) ELSE w1,
                  IF under THEN RDiv(I(2), a) ELSE h1,
                  factor, over \/ under)

\* the updater of handleWheel, with the branches it took
WheelCalc(prev, deltaY, mx, my, wd, ht) ==
  WheelSized(prev, wheelFactor(deltaY), mx, my, wd, ht, aspectOf(wd, ht),
             getBaseViewBox(wd, ht))

handleWheel(prev, deltaY, mx, my, wd, ht) == WheelCalc(prev, deltaY, mx, my, wd, ht).box

\* --------------------------------------------------------------- handleZoom
\* mutant of handleZoom: a step that would exceed the base width is refused
handleZoomRefused(prev, factor, wd, ht) ==
  LET b    == getBaseViewBox(wd, ht)
      newW == RMul(prev.w, factor)
      newH == RMul(prev.h, factor)
  IN  IF RLt(b.w, newW) THEN prev
      ELSE IF RLt(newW, I(2)) THEN prev
      ELSE [x |-> RAdd(prev.x, RDiv(RSub(prev.w, newW), I(2))),
            y |-> RAdd(prev.y, RDiv(RSub(prev.h, newH), I(2))),
            w |-> newW, h |-> newH]

handleZoom(prev, factor, wd, ht) ==
  LET b    == getBaseViewBox(wd, ht)
      newW == RMul(prev.w, factor)
      newH == RMul(prev.h, factor)
  IN  IF RLt(b.w, newW) THEN b
      ELSE IF RLt(newW, I(2)) THEN prev
      ELSE [x |-> RAdd(prev.x, RDiv(RSub(prev.w, newW), I(2))),
            y |-> RAdd(prev.y, RDiv(RSub(prev.h, newH), I(2))),
            w |-> newW, h |-> newH]

ZoomInFactor  == <<3, 4>>
ZoomOutFactor == <<133, 100>>

\* ------------------------------------------------------- handleMouseMove pan
\* mutant of panBy: the origin moves with the drag instead of against it
panByWrongWay(prev, closure, dx, dy, wd, ht) ==
  LET scaleX == RDiv(closure.w, I(wd))
      scaleY == RDiv(closure.h, I(ht))
  IN  [prev EXCEPT !.x = RAdd(prev.x, RMul(I(dx), scaleX)),
                   !.y = RAdd(prev.y, RMul(I(dy), scaleY))]

\* the updater of handleMouseMove; closure is the viewBox of the render whose
\* handler runs, prev the state the updater receives
panBy(prev, closure, dx, dy, wd, ht) ==
  LET scaleX == RDiv(closure.w, I(wd))
      scaleY == RDiv(closure.h, I(ht))
  IN  [prev EXCEPT !.x = RSub(prev.x, RMul(I(dx), scaleX)),
                   !.y = RSub(prev.y, RMul(I(dy), scaleY))]

\* ------------------------------------------- handleClusterClick: drill-down
RECURSIVE FoldMin(_, _, _)
FoldMin(xs, i, m) ==
  IF i > Len(xs) THEN m ELSE FoldMin(xs, i + 1, IF xs[i] < m THEN xs[i] ELSE m)

RECURSIVE FoldMax(_, _, _)
FoldMax(xs, i, m) ==
  IF i > Len(xs) THEN m ELSE FoldMax(xs, i + 1, IF xs[i] > m THEN xs[i] ELSE m)

XsOf(pts) == [i \in 1..Len(pts) |-> pts[i].x]
YsOf(pts) == [i \in 1..Len(pts) |-> pts[i].y]

\* mutant of drillDown: the target keeps its own proportions
drillDownOwnAspect(cluster, wd, ht) ==
  LET minX     == FoldMin(XsOf(cluster.points), 1, 100)
      maxX     == FoldMax(XsOf(cluster.points), 1, 0)
      minY     == FoldMin(YsOf(cluster.points), 1, 100)
      maxY     == FoldMax(YsOf(cluster.points), 1, 0)
      clusterW == maxX - minX
      clusterH == maxY - minY
      half     == R(IF clusterW > clusterH THEN clusterW ELSE clusterH, 2)
      pad      == IF half = I(0) THEN I(10) ELSE half
      targetW  == RMax(RAdd(I(clusterW), pad), I(10))
      targetH  == RMax(RAdd(I(clusterH), pad), I(10))
      dim      == RMax(targetW, targetH)
  IN  [x |-> RSub(R(minX + maxX, 2), RDiv(dim, I(2))),
       y |-> RSub(R(minY + maxY, 2), RDiv(dim, I(2))),
       w |-> targetW, h |-> targetH]

\* the multi-member branch of handleClusterClick: the rectangle it sets
drillDown(cluster, wd, ht) ==
  LET a        == aspectOf(wd, ht)
      minX     == FoldMin(XsOf(cluster.points), 1, 100)
      maxX     == FoldMax(XsOf(cluster.points), 1, 0)
      minY     == FoldMin(YsOf(cluster.points), 1, 100)
      maxY     == FoldMax(YsOf(cluster.points), 1, 0)
      clusterW == maxX - minX
      clusterH == maxY - minY
      half     == R(IF clusterW > clusterH THEN clusterW ELSE clusterH, 2)
      pad      == IF half = I(0) THEN I(10) ELSE half
      targetW0 == RMax(RAdd(I(clusterW), pad), I(10))
      targetH0 == RMax(RAdd(I(clusterH), pad), I(10))
      dim      == RMax(targetW0, targetH0)
      targetX  == RSub(R(minX + maxX, 2), RDiv(dim, I(2)))
      targetY  == RSub(R(minY + maxY, 2), RDiv(dim, I(2)))
      targetW  == IF RLt(I(1), a) THEN RMul(targetH0, a) ELSE targetW0
      targetH  == IF RLt(I(1), a) THEN targetH0 ELSE RDiv(targetW0, a)
  IN  [x |-> targetX, y |-> targetY, w |-> targetW, h |-> targetH]

\* ------------------------------------------------------------ selection state
\* mutant of selectedTargetOf: the first point of the list, whatever the id
selectedTargetOfFirst(areas, id) ==
  IF id = 0 \/ areas = <<>> THEN [id |-> 0] ELSE areas[1]

selectedTargetOf(areas, id) ==
  LET hits == {i \in 1..Len(areas) : areas[i].id = id}
  IN  IF hits = {} THEN [id |-> 0]
      ELSE areas[CHOOSE i \in hits : \A j \in hits : i <= j]

selectedTarget == selectedTargetOf(targetAreas, selectedTargetId)

\* mutant of SetSelected: the effect on [selectedTargetId, selectedTarget] is missing
SetSelectedNoEffect(id) ==
  /\ selectedTargetId' = id
  /\ UNCHANGED <<isEditing, editDescription>>

\* setSelectedTargetId(id) followed by the effect on [selectedTargetId, selectedTarget]
SetSelected(id) ==
  /\ selectedTargetId' = id
  /\ IF id = selectedTargetId
       THEN UNCHANGED <<isEditing, editDescription>>
       ELSE /\ isEditing' = FALSE
            /\ editDescription' =
                 IF selectedTargetOf(targetAreas, id).id # 0
                   THEN selectedTargetOf(targetAreas, id).description
                   ELSE editDescription

\* mutant of ContainerClickEffect: a distance of exactly 5 still counts as a click
ContainerClickEffectUpTo5 ==
  IF dragDistanceRef <= 5
    THEN SetSelected(0)
    ELSE UNCHANGED <<selectedTargetId, isEditing, editDescription>>

\* handleContainerClick
ContainerClickEffect ==
  IF dragDistanceRef < 5
    THEN SetSelected(0)
    ELSE UNCHANGED <<selectedTargetId, isEditing, editDescription>>

\* what the handler that runs now finds: the gesture's accumulated distance, the
\* selection and annotation state, the commits made and the owner's point list
UiRecord(op) ==
  [op |-> op, dist |-> dragDistanceRef, selected |-> selectedTargetId,
   editing |-> isEditing, buffer |-> editDescription, ncommits |-> Len(commits),
   areas |-> analysisTargets, steps |-> steps, box |-> viewBox, all |-> ui.all]

\* the history of the selection handlers is kept in the specifications that
\* start with it switched on
Log(op) == IF ui.op = "off" THEN ui ELSE UiRecord(op)

\* what a gesture handler finds when it runs: the button and pixel of the event,
\* the drag state, the accumulated distance, the recorded position and the viewBox
GestureOps == {"mouseDown", "mouseMove", "mouseMoves", "mouseUp", "mouseLeave"}

\* the pixel and the viewBox of the primary press that began the current drag
PressOf(op, button, p) ==
  IF op = "mouseDown" /\ button = 0 THEN [set |-> TRUE, pixel |-> p, box |-> viewBox]
  ELSE IF ui.op \in GestureOps THEN ui.press
  ELSE [set |-> FALSE, pixel |-> <<0, 0>>, box |-> viewBox]

GestureRecord(op, button, p) ==
  [op |-> op, button |-> button, pixel |-> p, dragging |-> isDragging,
   dist |-> dragDistanceRef, start |-> dragStart, box |-> viewBox,
   press |-> PressOf(op, button, p), all |-> TRUE]

\* the gesture handlers are recorded too in the specifications that start with
\* ui.all switched on
GestureLog(op, button, p) == IF ui.all THEN GestureRecord(op, button, p) ELSE ui

\* App and ResultsDashboard after the analysis arrived: every filter is on, no
\* tag is switched off, so displayedTargets is the whole list
AppInit ==
  /\ analysisTargets = targetAreas
  /\ activeFilters = [high |-> TRUE, medium |-> TRUE, low |-> TRUE]
  /\ disabledTags = {}
  /\ commits = <<>>
  /\ saves = 0

\* -------------------------------------------------------------- the component
Init ==
  /\ targetAreas \in PointSets
  /\ \E c \in Containers : width = c[1] /\ height = c[2]
  /\ viewBox = getBaseViewBox(width, height)
  /\ isDragging = FALSE
  /\ dragStart = [x |-> 0, y |-> 0]
  /\ dragDistanceRef = 0
  /\ selectedTargetId = 0
  /\ isEditing = FALSE
  /\ editDescription = ""
  /\ clickArmed = FALSE
  /\ steps = 0
  /\ last = [op |-> "init"]
  /\ AppInit
  /\ ui = [op |-> "off", all |-> FALSE]

\* onWheel, one of the given deltas at one of the given pixels
WheelWith(deltas, pixels) ==
  /\ steps < MaxSteps
  /\ ~clickArmed
  /\ \E deltaY \in deltas, m \in pixels :
       LET r == WheelCalc(viewBox, deltaY, m[1], m[2], width, height)
       IN  /\ viewBox' = r.box
           /\ last' = [op |-> "wheel", prev |-> viewBox, deltaY |-> deltaY,
                       mx |-> m[1], my |-> m[2], factor |-> r.factor,
                       widthClamped |-> r.widthClamped,
                       originClamped |-> r.originClamped, snapped |-> r.snapped,
                       before |-> IF last.op = "wheel"
                                    THEN [last EXCEPT !.before = [op |-> "none"]]
                                    ELSE [op |-> "none"]]
  /\ steps' = steps + 1
  /\ UNCHANGED <<targetAreas, width, height, isDragging, dragStart, dragDistanceRef,
                 selectedTargetId, isEditing, editDescription, clickArmed>>
  /\ UNCHANGED <<appVars, ui>>

Wheel == WheelWith(WheelDeltas, WheelPixels(width, height))

\* mutant of MouseDownAt: the button is not looked at
MouseDownAtAnyButton(pixels) ==
  /\ ~isDragging /\ ~clickArmed
  /\ \E button \in Buttons, p \in pixels :
       /\ isDragging' = TRUE
       /\ dragStart' = [x |-> p[1], y |-> p[2]]
       /\ dragDistanceRef' = 0
       /\ ui' = GestureLog("mouseDown", button, p)
  /\ UNCHANGED <<targetAreas, width, height, viewBox, selectedTargetId, isEditing,
                 editDescription, clickArmed, steps, last>>
  /\ UNCHANGED appVars

\* onMouseDown, the pointer at one of the given pixels
MouseDownAt(pixels) ==
  /\ ~isDragging /\ ~clickArmed
  /\ \E button \in Buttons, p \in pixels :
       /\ IF button # 0
            THEN UNCHANGED <<isDragging, dragStart, dragDistanceRef>>
            ELSE /\ isDragging' = TRUE
                 /\ dragStart' = [x |-> p[1], y |-> p[2]]
                 /\ dragDistanceRef' = 0
       /\ ui' = GestureLog("mouseDown", button, p)
  /\ UNCHANGED <<targetAreas, width, height, viewBox, selectedTargetId, isEditing,
                 editDescription, clickArmed, steps, last>>
  /\ UNCHANGED appVars

\* onMouseMove, the pointer arriving at one of the given pixels
MouseMoveTo(pixels) ==
  /\ ~clickArmed
  /\ \E p \in pixels :
       /\ IF ~isDragging
            THEN UNCHANGED <<viewBox, dragStart, dragDistanceRef, steps, last>>
            ELSE LET dx == p[1] - dragStart.x
                     dy == p[2] - dragStart.y
                 IN  /\ dragDistanceRef' = dragDistanceRef + Abs(dx) + Abs(dy)
                     /\ IF dx = 0 /\ dy = 0
                          THEN UNCHANGED <<viewBox, dragStart, steps, last>>
                          ELSE /\ steps < MaxSteps
                               /\ viewBox' = panBy(viewBox, viewBox, dx, dy, width, height)
                               /\ dragStart' = [x |-> p[1], y |-> p[2]]
                               /\ steps' = steps + 1
                               /\ last' = [op |-> "pan", prev |-> viewBox, dx |-> dx,
                                           dy |-> dy, from |-> dragStart]
       /\ ui' = GestureLog("mouseMove", 0, p)
  /\ UNCHANGED <<targetAreas, width, height, isDragging, selectedTargetId, isEditing,
                 editDescription, clickArmed>>
  /\ UNCHANGED appVars

MouseDown == MouseDownAt(PointerPixels(width, height))

MouseMove == MouseMoveTo(PointerPixels(width, height))

\* onMouseUp: the button pressed by MouseDown is released over the container,
\* after which the browser dispatches the click
MouseUp ==
  /\ isDragging /\ ~clickArmed
  /\ isDragging' = FALSE
  /\ clickArmed' = TRUE
  /\ UNCHANGED <<targetAreas, width, height, viewBox, dragStart, dragDistanceRef,
                 selectedTargetId, isEditing, editDescription, steps, last>>
  /\ ui' = GestureLog("mouseUp", 0, <<dragStart.x, dragStart.y>>)
  /\ UNCHANGED appVars

\* onMouseLeave={handleMouseUp}
MouseLeave ==
  /\ ~clickArmed
  /\ isDragging' = FALSE
  /\ UNCHANGED <<targetAreas, width, height, viewBox, dragStart, dragDistanceRef,
                 selectedTargetId, isEditing, editDescription, clickArmed, steps, last>>
  /\ ui' = GestureLog("mouseLeave", 0, <<dragStart.x, dragStart.y>>)
  /\ UNCHANGED appVars

\* click on empty space: onClick={handleContainerClick}
ContainerClick ==
  /\ clickArmed
  /\ clickArmed' = FALSE
  /\ ContainerClickEffect
  /\ UNCHANGED <<targetAreas, width, height, viewBox, isDragging, dragStart,
                 dragDistanceRef, steps, last>>
  /\ ui' = Log("containerClick")
  /\ UNCHANGED appVars

\* mutant of ClusterClick: the click is not stopped and the container-level
\* handler clears the selection after the cluster's own action
ClusterClickBubbles ==
  /\ clickArmed
  /\ clickArmed' = FALSE
  /\ \E cluster \in Range(clusters) :
       IF dragDistanceRef > 5
         THEN UNCHANGED <<viewBox, selectedTargetId, isEditing, editDescription, steps, last>>
         ELSE IF ~cluster.isCluster
           THEN /\ ContainerClickEffect
                /\ UNCHANGED <<viewBox, steps, last>>
           ELSE /\ steps < MaxSteps
                /\ viewBox' = drillDown(cluster, width, height)
                /\ steps' = steps + 1
                /\ last' = [op |-> "drillDown", prev |-> viewBox, cluster |-> cluster]
                /\ ContainerClickEffect
  /\ UNCHANGED <<targetAreas, width, height, isDragging, dragStart, dragDistanceRef>>
  /\ ui' = Log("clusterClick")
  /\ UNCHANGED appVars

\* click on a cluster marker: handleClusterClick, which stops propagation
ClusterClick ==
  /\ clickArmed
  /\ clickArmed' = FALSE
  /\ \E cluster \in Range(clusters) :
       IF dragDistanceRef > 5
         THEN UNCHANGED <<viewBox, selectedTargetId, isEditing, editDescription, steps, last>>
         ELSE IF ~cluster.isCluster
           THEN /\ SetSelected(cluster.points[1].id)
                /\ UNCHANGED <<viewBox, steps, last>>
           ELSE /\ steps < MaxSteps
                /\ viewBox' = drillDown(cluster, width, height)
                /\ steps' = steps + 1
                /\ last' = [op |-> "drillDown", prev |-> viewBox, cluster |-> cluster]
                /\ UNCHANGED <<selectedTargetId, isEditing, editDescription>>
  /\ UNCHANGED <<targetAreas, width, height, isDragging, dragStart, dragDistanceRef>>
  /\ ui' = Log("clusterClick")
  /\ UNCHANGED appVars

\* click on a zoom button: handleZoom(factor), then the click bubbles to the container
ZoomClick ==
  /\ clickArmed
  /\ steps < MaxSteps
  /\ clickArmed' = FALSE
  /\ \E factor \in {ZoomInFactor, ZoomOutFactor} :
       /\ viewBox' = handleZoom(viewBox, factor, width, height)
       /\ last' = [op |-> "zoom", prev |-> viewBox, factor |-> factor]
  /\ steps' = steps + 1
  /\ ContainerClickEffect
  /\ UNCHANGED <<targetAreas, width, height, isDragging, dragStart, dragDistanceRef>>
  /\ ui' = Log("zoomClick")
  /\ UNCHANGED appVars

\* click on the reset button: resetZoom, then the click bubbles to the container
ResetClick ==
  /\ clickArmed
  /\ steps < MaxSteps
  /\ steps' = steps + 1
  /\ clickArmed' = FALSE
  /\ viewBox' = getBaseViewBox(width, height)
  /\ last' = [op |-> "reset", prev |-> viewBox]
  /\ ContainerClickEffect
  /\ UNCHANGED <<targetAreas, width, height, isDragging, dragStart, dragDistanceRef>>
  /\ ui' = Log("resetClick")
  /\ UNCHANGED appVars

\* the width/height props change to one of the given containers: the effect on
\* [width, height] resets the viewBox
ResizeTo(containers) ==
  /\ ~clickArmed
  /\ steps < MaxSteps
  /\ steps' = steps + 1
  /\ \E c \in containers \ {<<width, height>>} :
       /\ width' = c[1]
       /\ height' = c[2]
       /\ viewBox' = getBaseViewBox(c[1], c[2])
  /\ last' = [op |-> "resize", prev |-> viewBox]
  /\ UNCHANGED <<targetAreas, isDragging, dragStart, dragDistanceRef, selectedTargetId,
                 isEditing, editDescription, clickArmed>>
  /\ UNCHANGED <<appVars, ui>>

\* mutant of Resize: the effect on [width, height] is missing
ResizeKeepsViewBox ==
  /\ ~clickArmed
  /\ steps < MaxSteps
  /\ steps' = steps + 1
  /\ \E c \in Containers \ {<<width, height>>} :
       /\ width' = c[1]
       /\ height' = c[2]
       /\ viewBox' = viewBox
  /\ last' = [op |-> "resize", prev |-> viewBox]
  /\ UNCHANGED <<targetAreas, isDragging, dragStart, dragDistanceRef, selectedTargetId,
                 isEditing, editDescription, clickArmed>>
  /\ UNCHANGED <<appVars, ui>>

\* the width/height props change
Resize == ResizeTo(Containers)

Next ==
  \/ Wheel \/ MouseDown \/ MouseMove \/ MouseUp \/ MouseLeave
  \/ ContainerClick \/ ClusterClick \/ ZoomClick \/ ResetClick \/ Resize

Spec == Init /\ [][Next]_vars

\* ------------------------------------- the clustering function on its own
PointSeqs ==
  UNION {{[i \in 1..n |-> Point(i, f[i])] : f \in [1..n -> Positions]} : n \in 0..MaxPoints}

PermutationsOf(s) ==
  {[i \in 1..Len(s) |-> s[f[i]]] : f \in Permutations(1..Len(s))}

InitClusteringOf(seqs) ==
  /\ targetAreas \in seqs
  /\ width = 600 /\ height = 400
  /\ \E w \in Widths :
       viewBox = [x |-> I(0), y |-> I(0), w |-> I(w), h |-> RDiv(I(w), aspect)]
  /\ isDragging = FALSE
  /\ dragStart = [x |-> 0, y |-> 0]
  /\ dragDistanceRef = 0
  /\ selectedTargetId = 0
  /\ isEditing = FALSE
  /\ editDescription = ""
  /\ clickArmed = FALSE
  /\ steps = 0
  /\ last = [op |-> "init"]
  /\ AppInit
  /\ ui = [op |-> "off", all |-> FALSE]

\* the targetAreas prop arrives in another order: useMemo recomputes clusters
ReorderPoints ==
  /\ last.op = "init"
  /\ \E s \in PermutationsOf(targetAreas) \ {targetAreas} : targetAreas' = s
  /\ last' = [op |-> "reorder", clusters |-> clusters, w |-> viewBox.w]
  /\ UNCHANGED <<width, height, viewBox, isDragging, dragStart, dragDistanceRef,
                 selectedTargetId, isEditing, editDescription, clickArmed, steps>>
  /\ analysisTargets' = targetAreas'
  /\ UNCHANGED <<activeFilters, disabledTags, commits, saves, ui>>

InitClustering == InitClusteringOf(PointSeqs)

\* viewBox.w changes: useMemo recomputes clusters
ChangeWidth ==
  /\ last.op = "init"
  /\ \E w \in Widths \ {viewBox.w[1]} :
       viewBox' = [viewBox EXCEPT !.w = I(w), !.h = RDiv(I(w), aspect)]
  /\ last' = [op |-> "rewidth", clusters |-> clusters, w |-> viewBox.w]
  /\ UNCHANGED <<targetAreas, width, height, isDragging, dragStart, dragDistanceRef,
                 selectedTargetId, isEditing, editDescription, clickArmed, steps>>
  /\ UNCHANGED <<appVars, ui>>

NextClustering == ReorderPoints \/ ChangeWidth

SpecClustering == InitClustering /\ [][NextClustering]_vars

\* ---------------------------------------------------- clustering properties
Members(c) == {c.points[i].id : i \in 1..Len(c.points)}

MemberSets(cs) == {Members(cs[i]) : i \in 1..Len(cs)}

Ids(areas) == {areas[i].id : i \in 1..Len(areas)}

UniqueIds(areas) == Cardinality(Ids(areas)) = Len(areas)

DistinctX(areas) == \A i, j \in 1..Len(areas) : i # j => areas[i].x # areas[j].x

RECURSIVE MultiCountFrom(_, _)
MultiCountFrom(cs, i) ==
  IF i > Len(cs) THEN 0
  ELSE (IF cs[i].isCluster THEN Len(cs[i].points) ELSE 0) + MultiCountFrom(cs, i + 1)

MultiCount(cs) == MultiCountFrom(cs, 1)

\* C1: with unique ids the clusters computed at the current width partition the
\* point set: every point is in exactly one cluster, no cluster is empty, no
\* point is in two clusters (nor twice in one).
C1_Partition ==
  LET cs == clusters IN
  UniqueIds(targetAreas) =>
    /\ \A i \in 1..Len(cs) : Len(cs[i].points) >= 1
    /\ \A i \in 1..Len(cs) : Cardinality(Members(cs[i])) = Len(cs[i].points)
    /\ \A k \in 1..Len(targetAreas) :
         Cardinality({i \in 1..Len(cs) :
            \E m \in 1..Len(cs[i].points) : cs[i].points[m] = targetAreas[k]}) = 1
    /\ \A i, j \in 1..Len(cs) : i # j => Members(cs[i]) \cap Members(cs[j]) = {}
    /\ UNION MemberSets(cs) = Ids(targetAreas)

C1_Witness ==
  LET cs == clusters IN
  /\ Len(targetAreas) = 4
  /\ Len(cs) = 2
  /\ \E i \in 1..Len(cs) : cs[i].isCluster
  /\ \E i \in 1..Len(cs) : ~cs[i].isCluster

\* C2 as claimed: after the point sequence is permuted the clusters have the same
\* membership sets as before, also when several points share an x.
C2_OrderIndependent ==
  last.op = "reorder" => MemberSets(clusters) = MemberSets(last.clusters)

\* C2 amended: the membership sets are the same after a permutation whenever the
\* points have pairwise distinct x.
C2_OrderIndependentDistinctX ==
  (last.op = "reorder" /\ DistinctX(targetAreas)) =>
     MemberSets(clusters) = MemberSets(last.clusters)

C2_Witness ==
  /\ last.op = "reorder"
  /\ DistinctX(targetAreas)
  /\ Len(targetAreas) = 3
  /\ targetAreas[1].x > targetAreas[2].x
  /\ MultiCount(clusters) = 2

\* C3 as claimed: a wider viewport never has fewer points in multi-member clusters.
C3_MergedCountMonotone ==
  (last.op = "rewidth" /\ RLe(last.w, viewBox.w)) =>
     MultiCount(clusters) >= MultiCount(last.clusters)

\* C3 amended: when the viewport gets wider, the cluster seeded by the lowest-x
\* point keeps every member it had, and if some cluster was multi-member before
\* then some cluster is multi-member after.
C3_SeedClusterMonotone ==
  LET cs == clusters IN
  (last.op = "rewidth" /\ RLe(last.w, viewBox.w) /\ Len(targetAreas) > 0) =>
     /\ Members(last.clusters[1]) \subseteq Members(cs[1])
     /\ (MultiCount(last.clusters) > 0 => MultiCount(cs) > 0)

C3_Witness ==
  /\ last.op = "rewidth"
  /\ RLt(last.w, viewBox.w)
  /\ MultiCount(last.clusters) = 4
  /\ MultiCount(clusters) = 3


\* ------------------------------------------------------ viewport properties
\* the rectangle lies inside the base rectangle widened by half its extent per side
InsideBuffered(v) ==
  /\ RLe(RSub(base.x, RMul(base.w, <<1, 2>>)), v.x)
  /\ RLe(RAdd(v.x, v.w), RAdd(base.x, RMul(base.w, <<3, 2>>)))
  /\ RLe(RSub(base.y, RMul(base.h, <<1, 2>>)), v.y)
  /\ RLe(RAdd(v.y, v.h), RAdd(base.y, RMul(base.h, <<3, 2>>)))

CentreX(v) == RAdd(v.x, RDiv(v.w, I(2)))
CentreY(v) == RAdd(v.y, RDiv(v.h, I(2)))

\* C4: in every state reached by wheel zooms, zoom buttons, pans, resets,
\* drill-downs and resizes, viewBox.w / viewBox.h equals width / height.
C4_AspectKept == RDiv(viewBox.w, viewBox.h) = aspect

C4_Witness ==
  /\ last.op = "drillDown"
  /\ steps = 2
  /\ width = 400
  /\ viewBox # base

\* C5 as claimed: in every reachable state 2 <= viewBox.w <= base.w.
C5_WidthInRange == RLe(I(2), viewBox.w) /\ RLe(viewBox.w, base.w)

\* C6: after a wheel zoom at pixel (mx, my) in which neither the width clamp, the
\* origin clamp nor the snap to base applied, the data point that was under the
\* pixel before the zoom is under it after the zoom.
C6_CursorPointFixed ==
  (last.op = "wheel" /\ ~last.widthClamped /\ ~last.originClamped /\ ~last.snapped) =>
     /\ DataAt(viewBox.x, viewBox.w, last.mx, width)
          = DataAt(last.prev.x, last.prev.w, last.mx, width)
     /\ DataAt(viewBox.y, viewBox.h, last.my, height)
          = DataAt(last.prev.y, last.prev.h, last.my, height)

C6_Witness ==
  /\ last.op = "wheel"
  /\ ~last.widthClamped /\ ~last.originClamped /\ ~last.snapped
  /\ last.mx = width /\ last.my = height
  /\ viewBox.w # last.prev.w
  /\ last.prev # base

\* C7: after every wheel zoom, wherever the viewport was before, the rectangle
\* lies inside the buffered base bounds on both axes.
C7_WheelInsideBuffer == last.op = "wheel" => InsideBuffered(viewBox)

C7_Witness ==
  /\ last.op = "wheel"
  /\ ~InsideBuffered(last.prev)
  /\ last.originClamped
  /\ ~last.snapped

\* C8 as claimed: after a zoom button step the rectangle's origin is clamped
\* against the buffered base bounds, as after a wheel zoom.
C8_ZoomStepInsideBuffer == last.op = "zoom" => InsideBuffered(viewBox)

\* C9 as claimed: a zoom-out step whose result would exceed base.w gives the
\* base rectangle, a zoom-in step whose result would be narrower than 2 leaves
\* the rectangle unchanged, and every other step keeps the centre and multiplies
\* width and height by the factor.
C9_ZoomStepCases ==
  last.op = "zoom" =>
    LET p    == last.prev
        newW == RMul(p.w, last.factor)
    IN  IF RLt(I(1), last.factor) /\ RLt(base.w, newW) THEN viewBox = base
        ELSE IF RLt(last.factor, I(1)) /\ RLt(newW, I(2)) THEN viewBox = p
        ELSE /\ CentreX(viewBox) = CentreX(p)
             /\ CentreY(viewBox) = CentreY(p)
             /\ viewBox.w = newW
             /\ viewBox.h = RMul(p.h, last.factor)

\* C10: a pan by the pixel delta (dx, dy) keeps width and height, moves the
\* origin by exactly (dx * w / width, dy * h / height) against the drag with no
\* clamping, and the data point that was under the cursor is under it afterwards.
C10_PanIsTranslation ==
  last.op = "pan" =>
    LET p == last.prev IN
    /\ viewBox.w = p.w
    /\ viewBox.h = p.h
    /\ RSub(p.x, viewBox.x) = RDiv(RMul(I(last.dx), p.w), I(width))
    /\ RSub(p.y, viewBox.y) = RDiv(RMul(I(last.dy), p.h), I(height))
    /\ DataAt(viewBox.x, viewBox.w, last.from.x + last.dx, width)
         = DataAt(p.x, p.w, last.from.x, width)
    /\ DataAt(viewBox.y, viewBox.h, last.from.y + last.dy, height)
         = DataAt(p.y, p.h, last.from.y, height)

C10_Witness ==
  /\ last.op = "pan"
  /\ last.dx # 0
  /\ last.prev # base
  /\ InsideBuffered(last.prev)
  /\ ~InsideBuffered(viewBox)

\* C11: after a reset the viewBox is exactly the base rectangle of the container,
\* whatever it was before, and after a change of the container's width or height
\* it is the base rectangle computed from the new dimensions.
C11_ResetToBase ==
  last.op \in {"reset", "resize"} =>
    LET a == R(width, height)
        w == IF RLt(I(1), a) THEN RMul(I(100), a) ELSE I(100)
        h == IF RLt(I(1), a) THEN I(100) ELSE RDiv(I(100), a)
    IN  viewBox = [x |-> RSub(I(50), RDiv(w, I(2))), y |-> RSub(I(50), RDiv(h, I(2))),
                   w |-> w, h |-> h]

C11_Witness ==
  /\ last.op = "resize"
  /\ last.prev # viewBox
  /\ \A c \in Containers : last.prev # getBaseViewBox(c[1], c[2])

\* C12 as claimed: the rectangle set by a drill-down has its centre at the centre
\* of the bounding box of the cluster's members, ((minX+maxX)/2, (minY+maxY)/2).
C12_DrillDownCentred ==
  last.op = "drillDown" =>
    LET pts == last.cluster.points IN
    /\ CentreX(viewBox) = R(FoldMin(XsOf(pts), 1, 100) + FoldMax(XsOf(pts), 1, 0), 2)
    /\ CentreY(viewBox) = R(FoldMin(YsOf(pts), 1, 100) + FoldMax(YsOf(pts), 1, 0), 2)

\* --------------------------- drill-down over every cluster of small point sets
InitDrillDown ==
  /\ targetAreas \in PointSeqs
  /\ \E c \in Containers : width = c[1] /\ height = c[2]
  /\ viewBox = getBaseViewBox(width, height)
  /\ isDragging = FALSE
  /\ dragStart = [x |-> 0, y |-> 0]
  /\ dragDistanceRef = 0
  /\ selectedTargetId = 0
  /\ isEditing = FALSE
  /\ editDescription = ""
  /\ clickArmed = FALSE
  /\ steps = 0
  /\ last = [op |-> "init"]
  /\ AppInit
  /\ ui = [op |-> "off", all |-> FALSE]

NextDrillDown == MouseDown \/ MouseUp \/ ClusterClick

SpecDrillDown == InitDrillDown /\ [][NextDrillDown]_vars

\* the rectangle v contains the data point (px, py), borders included
Contains(v, px, py) ==
  /\ RLe(v.x, I(px)) /\ RLe(I(px), RAdd(v.x, v.w))
  /\ RLe(v.y, I(py)) /\ RLe(I(py), RAdd(v.y, v.h))

\* C13 as claimed: after a drill-down on a multi-member cluster the viewBox
\* contains every member point of that cluster.
C13_DrillDownContainsMembers ==
  last.op = "drillDown" =>
    \A i \in 1..Len(last.cluster.points) :
      Contains(viewBox, last.cluster.points[i].x, last.cluster.points[i].y)

\* ------------------------------------------- the owner of the point list
\* the descriptions that can be typed
Texts == {"new text", "vein fill"}

\* text.includes(keyword) on the descriptions of the model
Includes(text, keyword) ==
  <<text, keyword>> \in {<<"vein fill", "vein">>}

\* getTargetTags: the signature tags found in the description
getTargetTags(target) ==
  LET text == target.description
      has(keywords) == \E k \in keywords : Includes(text, k)
      tags ==
        (IF has({"potassic", "biotite", "k-feldspar"}) THEN {"Potassic"} ELSE {})
        \cup (IF has({"phyllic", "sericite", "pyrite", "qsp"}) THEN {"Phyllic"} ELSE {})
        \cup (IF has({"argillic", "kaolinite", "clay", "alunite"}) THEN {"Argillic"} ELSE {})
        \cup (IF has({"propylitic", "chlorite", "epidote"}) THEN {"Propylitic"} ELSE {})
        \cup (IF has({"silicic", "silica", "quartz", "stockwork"}) THEN {"Silicic/Qtz"} ELSE {})
        \cup (IF has({"vein"}) THEN {"Veining"} ELSE {})
        \cup (IF has({"breccia"}) THEN {"Breccia"} ELSE {})
        \cup (IF has({"fault", "structure"}) THEN {"Structural"} ELSE {})
  IN  IF tags = {} THEN {"Unclassified"} ELSE tags

\* getProbabilityCategory, the probability in percent
getProbabilityCategory(prob) ==
  IF prob >= 60 THEN "high" ELSE IF prob >= 30 THEN "medium" ELSE "low"

\* displayedTargets: the targets that pass the probability and the tag filters
displayedTargets(areas, filters, disabled) ==
  LET shown(t) == /\ filters[getProbabilityCategory(t.probability)]
                  /\ \E tag \in getTargetTags(t) : tag \notin disabled
  IN  SelectSeq(areas, shown)

\* availableTags: the tags that occur in the owner's list
availableTags(areas) == UNION {getTargetTags(areas[i]) : i \in 1..Len(areas)}

\* mutant of handleUpdateTargetDescription: every point takes the new text
handleUpdateTargetDescriptionAll(areas, id, newDescription) ==
  [i \in 1..Len(areas) |-> [areas[i] EXCEPT !.description = newDescription]]

\* App.handleUpdateTargetDescription
handleUpdateTargetDescription(areas, id, newDescription) ==
  [i \in 1..Len(areas) |->
     IF areas[i].id = id THEN [areas[i] EXCEPT !.description = newDescription]
     ELSE areas[i]]

\* mutant of SelectionEffect: the effect does nothing when the target is gone
SelectionEffectOnlyFound(areas, fresh) ==
  LET target == selectedTargetOf(areas, selectedTargetId)
  IN  IF target.id # 0 /\ (fresh \/ target # selectedTarget)
        THEN /\ isEditing' = FALSE
             /\ editDescription' = target.description
        ELSE UNCHANGED <<isEditing, editDescription>>

\* the effect on [selectedTargetId, selectedTarget] after a render with the
\* point list areas; fresh says that the selected target is a new object
SelectionEffect(areas, fresh) ==
  LET target == selectedTargetOf(areas, selectedTargetId)
  IN  IF fresh \/ target # selectedTarget
        THEN /\ isEditing' = FALSE
             /\ editDescription' =
                  IF target.id # 0 THEN target.description ELSE editDescription
        ELSE UNCHANGED <<isEditing, editDescription>>

\* the detail panel is rendered, its buttons can be pressed
PanelShown == selectedTarget.id # 0 /\ ~clickArmed /\ ~isDragging

\* mutant of handleSave: the callback is invoked twice
handleSaveTwice ==
  IF selectedTarget.id # 0
    THEN LET id    == selectedTarget.id
             owner == handleUpdateTargetDescription(analysisTargets, id, editDescription)
             shown == displayedTargets(owner, activeFilters, disabledTags)
             after == selectedTargetOf(shown, selectedTargetId)
         IN  /\ commits' = commits \o <<<<id, editDescription>>, <<id, editDescription>>>>
             /\ analysisTargets' = owner
             /\ targetAreas' = shown
             /\ isEditing' = FALSE
             /\ editDescription' =
                  IF after.id # 0 THEN after.description ELSE editDescription
    ELSE UNCHANGED <<commits, analysisTargets, targetAreas, isEditing, editDescription>>

\* handleSave: onUpdateTarget(selectedTarget.id, editDescription), setIsEditing(false);
\* the owner replaces the description, the list is filtered again and the
\* selection effect runs for the new target object
handleSave ==
  IF selectedTarget.id # 0
    THEN LET id    == selectedTarget.id
             owner == handleUpdateTargetDescription(analysisTargets, id, editDescription)
             shown == displayedTargets(owner, activeFilters, disabledTags)
             after == selectedTargetOf(shown, selectedTargetId)
         IN  /\ commits' = Append(commits, <<id, editDescription>>)
             /\ analysisTargets' = owner
             /\ targetAreas' = shown
             /\ isEditing' = FALSE
             /\ editDescription' =
                  IF after.id # 0 THEN after.description ELSE editDescription
    ELSE UNCHANGED <<commits, analysisTargets, targetAreas, isEditing, editDescription>>

\* mutant of handleCancel: leaving edit mode saves the typed text
handleCancelCommits ==
  /\ isEditing' = FALSE
  /\ editDescription' =
       IF selectedTarget.id # 0 THEN selectedTarget.description ELSE editDescription
  /\ commits' = Append(commits, <<selectedTargetId, editDescription>>)
  /\ UNCHANGED <<analysisTargets, targetAreas>>

\* handleCancel
handleCancel ==
  /\ isEditing' = FALSE
  /\ editDescription' =
       IF selectedTarget.id # 0 THEN selectedTarget.description ELSE editDescription
  /\ UNCHANGED <<commits, analysisTargets, targetAreas>>

\* ------------------------------------------------------ the detail panel
\* bound on the number of commits
MaxCommits == 1

Keys == {"Enter", "Escape", "a"}

FilterKeys == {"high"}

\* mutant of EditClick: entering edit mode empties the buffer
EditClickEmptyBuffer ==
  /\ PanelShown
  /\ ~isEditing
  /\ isEditing' = TRUE
  /\ editDescription' = ""
  /\ ui' = Log("edit")
  /\ UNCHANGED <<targetAreas, width, height, viewBox, isDragging, dragStart,
                 dragDistanceRef, selectedTargetId, clickArmed,
                 steps, last, appVars>>

\* the edit button, rendered while not editing
EditClick ==
  /\ PanelShown
  /\ ~isEditing
  /\ isEditing' = TRUE
  /\ ui' = Log("edit")
  /\ UNCHANGED <<targetAreas, width, height, viewBox, isDragging, dragStart,
                 dragDistanceRef, selectedTargetId, editDescription, clickArmed,
                 steps, last, appVars>>

\* onChange of the textarea, the new value one of the given texts
TypeOf(texts) ==
  /\ selectedTarget.id # 0 /\ isEditing /\ ~clickArmed
  /\ \E text \in texts \ {editDescription} : editDescription' = text
  /\ ui' = Log("type")
  /\ UNCHANGED <<targetAreas, width, height, viewBox, isDragging, dragStart,
                 dragDistanceRef, selectedTargetId, isEditing, clickArmed,
                 steps, last, appVars>>

Type == TypeOf(Texts)

\* the Save button
SaveClick ==
  /\ PanelShown
  /\ isEditing
  /\ Len(commits) < MaxCommits
  /\ handleSave
  /\ saves' = saves + 1
  /\ ui' = Log("save")
  /\ UNCHANGED <<width, height, viewBox, isDragging, dragStart, dragDistanceRef,
                 selectedTargetId, clickArmed, steps, last, activeFilters, disabledTags>>

\* mutant of CancelClick: the typed text stays in the buffer
CancelClickKeepsText ==
  /\ PanelShown
  /\ isEditing
  /\ isEditing' = FALSE
  /\ ui' = Log("cancel")
  /\ UNCHANGED <<targetAreas, width, height, viewBox, isDragging, dragStart,
                 dragDistanceRef, selectedTargetId, editDescription, clickArmed,
                 steps, last, appVars>>

\* the Cancel button
CancelClick ==
  /\ PanelShown
  /\ isEditing
  /\ handleCancel
  /\ ui' = Log("cancel")
  /\ UNCHANGED <<width, height, viewBox, isDragging, dragStart, dragDistanceRef,
                 selectedTargetId, clickArmed, steps, last, activeFilters,
                 disabledTags, saves>>

\* handleKeyDown of the textarea
KeyDown ==
  /\ selectedTarget.id # 0 /\ isEditing /\ ~clickArmed
  /\ \E key \in Keys, metaKey \in BOOLEAN, ctrlKey \in BOOLEAN :
       IF key = "Enter" /\ (metaKey \/ ctrlKey)
         THEN /\ Len(commits) < MaxCommits
              /\ handleSave
              /\ saves' = saves + 1
              /\ ui' = Log("save")
         ELSE IF key = "Escape"
           THEN /\ handleCancel
                /\ ui' = Log("cancel")
                /\ UNCHANGED saves
           ELSE UNCHANGED <<targetAreas, isEditing, editDescription, analysisTargets,
                            commits, saves, ui>>
  /\ UNCHANGED <<width, height, viewBox, isDragging, dragStart, dragDistanceRef,
                 selectedTargetId, clickArmed, steps, last, activeFilters, disabledTags>>

\* the close button of the panel
CloseClick ==
  /\ PanelShown
  /\ SetSelected(0)
  /\ ui' = Log("close")
  /\ UNCHANGED <<targetAreas, width, height, viewBox, isDragging, dragStart,
                 dragDistanceRef, clickArmed, steps, last, appVars>>

\* mutant of ToggleFilter: the Heatmap's effect does not run on the new list
ToggleFilterNoEffect ==
  /\ ~clickArmed /\ ~isDragging
  /\ \E key \in FilterKeys :
       LET filters == [activeFilters EXCEPT ![key] = ~activeFilters[key]]
           shown   == displayedTargets(analysisTargets, filters, disabledTags)
       IN  /\ activeFilters' = filters
           /\ targetAreas' = shown
           /\ UNCHANGED <<isEditing, editDescription>>
  /\ ui' = Log("filter")
  /\ UNCHANGED <<width, height, viewBox, isDragging, dragStart, dragDistanceRef,
                 selectedTargetId, clickArmed, steps, last, analysisTargets,
                 disabledTags, commits, saves>>

\* ResultsDashboard.toggleFilter: the point list passed to the Heatmap changes
ToggleFilter ==
  /\ ~clickArmed /\ ~isDragging
  /\ \E key \in FilterKeys :
       LET filters == [activeFilters EXCEPT ![key] = ~activeFilters[key]]
           shown   == displayedTargets(analysisTargets, filters, disabledTags)
       IN  /\ activeFilters' = filters
           /\ targetAreas' = shown
           /\ SelectionEffect(shown, FALSE)
  /\ ui' = Log("filter")
  /\ UNCHANGED <<width, height, viewBox, isDragging, dragStart, dragDistanceRef,
                 selectedTargetId, clickArmed, steps, last, analysisTargets,
                 disabledTags, commits, saves>>

\* ResultsDashboard.toggleTag
ToggleTag ==
  /\ ~clickArmed /\ ~isDragging
  /\ \E tag \in availableTags(analysisTargets) :
       LET disabled == IF tag \in disabledTags THEN disabledTags \ {tag}
                       ELSE disabledTags \cup {tag}
           shown    == displayedTargets(analysisTargets, activeFilters, disabled)
       IN  /\ disabledTags' = disabled
           /\ targetAreas' = shown
           /\ SelectionEffect(shown, FALSE)
  /\ ui' = Log("tag")
  /\ UNCHANGED <<width, height, viewBox, isDragging, dragStart, dragDistanceRef,
                 selectedTargetId, clickArmed, steps, last, analysisTargets,
                 activeFilters, commits, saves>>

\* ------------------------------- the Heatmap inside the ResultsDashboard
\* pointer pixels a few pixels apart
NearPixels == {<<0, 0>>, <<3, 0>>, <<3, 2>>}

\* a single point and a pair that clusters at the base width
AnnotatePoints == <<LinePoints[1], LinePoints[2], LinePoints[4]>>

\* the state after construction with the given props; history is "init" where
\* the selection handlers are recorded, "off" where they are not
InitWith(areas, wd, ht, history) ==
  /\ targetAreas = areas
  /\ width = wd /\ height = ht
  /\ viewBox = getBaseViewBox(wd, ht)
  /\ isDragging = FALSE
  /\ dragStart = [x |-> 0, y |-> 0]
  /\ dragDistanceRef = 0
  /\ selectedTargetId = 0
  /\ isEditing = FALSE
  /\ editDescription = ""
  /\ clickArmed = FALSE
  /\ steps = 0
  /\ last = [op |-> "init"]
  /\ AppInit
  /\ ui = [op |-> IF history = "all" THEN "init" ELSE history, all |-> history = "all"]

\* selecting, editing, saving, cancelling, deselecting, filtering
InitAnnotate == InitWith(AnnotatePoints, 600, 400, "init")

NextAnnotate ==
  \/ MouseDownAt({<<0, 0>>}) \/ MouseUp \/ ContainerClick \/ ClusterClick
  \/ EditClick \/ Type \/ SaveClick \/ CancelClick \/ KeyDown \/ CloseClick
  \/ ToggleFilter \/ ToggleTag

SpecAnnotate == InitAnnotate /\ [][NextAnnotate]_vars

\* every handler of the Heatmap and of its owner
InitWorkflow == InitWith(AnnotatePoints, 600, 400, "off")

NextWorkflow ==
  \/ WheelWith({<<-100, 1>>}, {<<0, 0>>})
  \/ MouseDownAt({<<0, 0>>}) \/ MouseMoveTo({<<0, 0>>, <<3, 2>>}) \/ MouseUp \/ MouseLeave
  \/ ContainerClick \/ ClusterClick \/ ZoomClick \/ ResetClick
  \/ EditClick \/ TypeOf({"new text"}) \/ SaveClick \/ CancelClick \/ KeyDown \/ CloseClick
  \/ ToggleFilter \/ ToggleTag

SpecWorkflow == InitWorkflow /\ [][NextWorkflow]_vars

\* presses, drags of a few pixels and the clicks that follow them
InitGesture == InitWith(AnnotatePoints, 600, 400, "init")

NextGesture ==
  \/ MouseDownAt(NearPixels) \/ MouseMoveTo(NearPixels) \/ MouseUp \/ MouseLeave
  \/ ContainerClick \/ ClusterClick \/ EditClick \/ Type

SpecGesture == InitGesture /\ [][NextGesture]_vars

\* C14: a Save (button or modifier+Enter) while point id is edited with buffer t
\* invokes the commit callback exactly once, with (id, t), and leaves the same
\* id selected with edit mode off.
C14_SaveCommitsOnce ==
  ui.op = "save" =>
    /\ Len(commits) = ui.ncommits + 1
    /\ commits[Len(commits)] = <<ui.selected, ui.buffer>>
    /\ selectedTargetId = ui.selected
    /\ ~isEditing

C14_Witness ==
  /\ ui.op = "save"
  /\ ui.editing
  /\ ui.selected = 1
  /\ ui.buffer = "new text"
  /\ commits = <<<<1, "new text">>>>

\* C15: the commit callback is invoked only by a Save request: whatever
\* selecting, deselecting, cancelling, typing, panning, zooming, resetting,
\* drilling down or filtering happens, there are never more commits than Save
\* requests.
C15_CommitOnlyOnSave == Len(commits) <= saves

C15_Witness ==
  /\ commits = <<>>
  /\ last.op = "pan"
  /\ isEditing
  /\ editDescription \in Texts
  /\ selectedTargetId # 0
  /\ ~activeFilters.high

\* C16: a deselect (close button, or click on empty space after less than 5
\* pixels of movement) leaves nothing selected and edit mode off, whatever was
\* selected or edited before, makes no commit and leaves every description as
\* it was.
C16_DeselectDiscards ==
  (ui.op = "close" \/ (ui.op = "containerClick" /\ ui.dist < 5)) =>
    /\ selectedTargetId = 0
    /\ ~isEditing
    /\ Len(commits) = ui.ncommits
    /\ analysisTargets = ui.areas

C16_Witness ==
  /\ ui.op = "containerClick"
  /\ ui.dist < 5
  /\ ui.selected # 0
  /\ ui.editing
  /\ ui.buffer \in Texts

\* C17: a Cancel (button or Escape) while point id is edited leaves id selected
\* with edit mode off, makes no commit, leaves every description as it was and
\* puts the point's current description back into the edit buffer.
C17_CancelRestores ==
  ui.op = "cancel" =>
    /\ selectedTargetId = ui.selected
    /\ ~isEditing
    /\ Len(commits) = ui.ncommits
    /\ analysisTargets = ui.areas
    /\ editDescription = selectedTarget.description

C17_Witness ==
  /\ ui.op = "cancel"
  /\ ui.editing
  /\ ui.selected # 0
  /\ ui.buffer \in Texts
  /\ editDescription # ui.buffer

C19_ClusterClickThreshold ==
  (ui.op = "clusterClick" /\ ui.dist >= 5) =>
    /\ selectedTargetId = ui.selected
    /\ steps = ui.steps

\* ------------------------------------- wheel zooms with inverse factors
\* wheel deltas whose factors are inverse in pairs: 11/10 and 10/11, 21/20 and 20/21
RoundTripDeltas == {<<100, 1>>, <<-1000, 11>>, <<50, 1>>, <<-1000, 21>>}

\* the rectangles after one and after two clicks on the zoom-in button
StartBoxes(wd, ht) ==
  LET once == handleZoom(getBaseViewBox(wd, ht), ZoomInFactor, wd, ht)
  IN  {once, handleZoom(once, ZoomInFactor, wd, ht)}

\* the state after the zoom-in clicks; steps counts the operations from here on
InitRoundTrip ==
  /\ targetAreas \in PointSets
  /\ \E c \in Containers : width = c[1] /\ height = c[2]
  /\ viewBox \in StartBoxes(width, height)
  /\ isDragging = FALSE
  /\ dragStart = [x |-> 0, y |-> 0]
  /\ dragDistanceRef = 0
  /\ selectedTargetId = 0
  /\ isEditing = FALSE
  /\ editDescription = ""
  /\ clickArmed = FALSE
  /\ steps = 0
  /\ last = [op |-> "init"]
  /\ AppInit
  /\ ui = [op |-> "off", all |-> FALSE]

NextRoundTrip == WheelWith(RoundTripDeltas, WheelPixels(width, height))

SpecRoundTrip == InitRoundTrip /\ [][NextRoundTrip]_vars

\* the wheel step recorded in r took neither a width clamp, nor an origin clamp,
\* nor the snap to the base rectangle
Unclamped(r) == ~r.widthClamped /\ ~r.originClamped /\ ~r.snapped

\* C20: a wheel zoom with factor f followed by a wheel zoom with factor 1/f at
\* the same pixel gives back the rectangle from before the first zoom whenever
\* neither step clamped the width, clamped the origin or snapped.
C20_ZoomRoundTrip ==
  (/\ last.op = "wheel"
   /\ last.before.op = "wheel"
   /\ last.mx = last.before.mx
   /\ last.my = last.before.my
   /\ RMul(last.factor, last.before.factor) = I(1)
   /\ Unclamped(last)
   /\ Unclamped(last.before))
  => viewBox = last.before.prev

C20_Witness ==
  /\ last.op = "wheel"
  /\ last.before.op = "wheel"
  /\ last.mx = width \div 2
  /\ last.mx = last.before.mx
  /\ last.my = last.before.my
  /\ RMul(last.factor, last.before.factor) = I(1)
  /\ Unclamped(last)
  /\ Unclamped(last.before)
  /\ last.prev # viewBox
  /\ viewBox = last.before.prev

\* ------------------------------------------------------ the density surface
gridSize == 30

\* floor and ceiling of a rational q >= 0
Floor(q) == q[1] \div q[2]
Ceil(q)  == (q[1] + q[2] - 1) \div q[2]

RECURSIVE Pow(_, _)
Pow(b, k) == IF k = 0 THEN 1 ELSE b * Pow(b, k - 1)

RMin(a, b) == IF RLt(b, a) THEN b ELSE a

\* Math.exp(-q) for q >= 0 is not a rational: the model carries an enclosure of
\* it, 4^-ceil(q) <= exp(-q) <= 2^-floor(q) (because 2 < e < 4), whose two ends
\* are both 1 at q = 0; far away the lower end is 0 and the upper end 2^-20
expNegLo(q) == IF Ceil(q) > 10 THEN I(0) ELSE R(1, Pow(4, Ceil(q)))
expNegHi(q) == R(1, Pow(2, Min(Floor(q), 20)))

\* (dist * dist) / 100 for the target and the cell centre (cx, cy)
distSqOver100(target, cx, cy) ==
  LET dx == RSub(cx, I(target.x))
      dy == RSub(cy, I(target.y))
  IN  RDiv(RAdd(RMul(dx, dx), RMul(dy, dy)), I(100))

\* influence = target.probability * Math.exp(-q): the enclosure of it, for the
\* probability p
influenceOf(p, q) == [lo |-> RMul(p, expNegLo(q)), hi |-> RMul(p, expNegHi(q))]

\* intensity += influence, on both ends
addInfluence(intensity, influence) ==
  [lo |-> RAdd(intensity.lo, influence.lo), hi |-> RAdd(intensity.hi, influence.hi)]

\* mutant of sumInfluence: the intensity starts at 0.1 instead of 0
RECURSIVE sumInfluenceAmbient(_, _, _, _)
sumInfluenceAmbient(areas, k, cx, cy) ==
  IF k > Len(areas) THEN [lo |-> <<1, 10>>, hi |-> <<1, 10>>]
  ELSE addInfluence(sumInfluenceAmbient(areas, k + 1, cx, cy),
                    influenceOf(R(areas[k].probability, 100),
                                distSqOver100(areas[k], cx, cy)))

\* let intensity = 0; targetAreas.forEach(target => intensity += influence), with
\* influence = target.probability * Math.exp(-(dist * dist) / 100): the enclosure
\* [lo, hi] of the sum over the targets from index k on; probabilities in percent
RECURSIVE sumInfluence(_, _, _, _)
sumInfluence(areas, k, cx, cy) ==
  IF k > Len(areas) THEN [lo |-> I(0), hi |-> I(0)]
  ELSE addInfluence(sumInfluence(areas, k + 1, cx, cy),
                    influenceOf(R(areas[k].probability, 100),
                                distSqOver100(areas[k], cx, cy)))

\* mutant of capIntensity: the sum is not capped
capIntensityNone(s) == s

\* Math.min(intensity, 1) on both ends of the enclosure
capIntensity(s) == [lo |-> RMin(s.lo, I(1)), hi |-> RMin(s.hi, I(1))]

\* the useMemo of cells: the grid in the order it is pushed, column i, row j
cellAt(areas, x, y, cellW, cellH) ==
  [x |-> x, y |-> y, w |-> cellW, h |-> cellH,
   intensity |-> capIntensity(sumInfluence(areas, 1, RAdd(x, RDiv(cellW, I(2))),
                                           RAdd(y, RDiv(cellH, I(2)))))]

gridOf(areas, v, cellW, cellH) ==
  [k \in 1..(gridSize * gridSize) |->
     cellAt(areas, RAdd(v.x, RMul(I((k - 1) \div gridSize), cellW)),
            RAdd(v.y, RMul(I((k - 1) % gridSize), cellH)), cellW, cellH)]

cellsOf(areas, v) == gridOf(areas, v, RDiv(v.w, I(gridSize)), RDiv(v.h, I(gridSize)))

cells == cellsOf(targetAreas, viewBox)

\* ------------------------------- the Heatmap rendered with no point at all
InitEmpty ==
  \E c \in Containers : InitWith(<<>>, c[1], c[2], "off")

\* with no point there is no marker, so no cluster click
NextEmpty ==
  \/ WheelWith({<<-100, 1>>, <<100, 1>>}, {<<0, 0>>})
  \/ MouseDownAt({<<0, 0>>}) \/ MouseMoveTo({<<3, 2>>}) \/ MouseUp \/ MouseLeave
  \/ ContainerClick \/ ZoomClick \/ ResetClick \/ Resize

SpecEmpty == InitEmpty /\ [][NextEmpty]_vars

\* the rectangle is made of finite numbers and has a positive width and height
FiniteBox(v) ==
  /\ v.x[2] > 0 /\ v.y[2] > 0 /\ v.w[2] > 0 /\ v.h[2] > 0
  /\ RLt(I(0), v.w) /\ RLt(I(0), v.h)

\* C21: with an empty point set, in every state reached by wheel zooms, zoom
\* buttons, pans, clicks, resets and resizes, the cluster list is empty, the
\* density grid has 900 cells that all have intensity 0, nothing is selected
\* and the viewBox is a rectangle of finite numbers.
C21_EmptyPointSet ==
  LET cs == cells IN
  targetAreas = <<>> =>
    /\ clusters = <<>>
    /\ Len(cs) = 900
    /\ \A k \in 1..Len(cs) : cs[k].intensity = [lo |-> I(0), hi |-> I(0)]
    /\ selectedTarget.id = 0
    /\ FiniteBox(viewBox)

C21_Witness ==
  /\ targetAreas = <<>>
  /\ steps = 2
  /\ last.op = "pan"
  /\ last.prev # base
  /\ ~clickArmed
  /\ Len(cells) = 900

\* ------------------------------------ a selection whose point is filtered away
\* const isSelected = !cluster.isCluster && cluster.points[0].id === selectedTargetId
isSelected(cluster) == ~cluster.isCluster /\ cluster.points[1].id = selectedTargetId

\* the markers drawn as selected
SelectedMarkers == {i \in 1..Len(clusters) : isSelected(clusters[i])}

\* handleSave called while the selected id is not in the point list; the panel
\* with the Save button and the textarea is not rendered then, the call stands
\* for a Save request that reaches the handler all the same
SaveRequest ==
  /\ ~clickArmed /\ ~isDragging
  /\ selectedTargetId # 0 /\ selectedTarget.id = 0
  /\ saves < MaxCommits
  /\ handleSave
  /\ saves' = saves + 1
  /\ ui' = Log("staleSave")
  /\ UNCHANGED <<width, height, viewBox, isDragging, dragStart, dragDistanceRef,
                 selectedTargetId, clickArmed, steps, last, activeFilters, disabledTags>>

InitStale == InitWith(AnnotatePoints, 600, 400, "init")

NextStale ==
  \/ MouseDownAt({<<0, 0>>}) \/ MouseUp \/ ContainerClick \/ ClusterClick
  \/ EditClick \/ TypeOf({"vein fill"}) \/ SaveClick \/ CancelClick
  \/ ToggleFilter \/ ToggleTag \/ SaveRequest

SpecStale == InitStale /\ [][NextStale]_vars

\* C22: whenever the selected id is not in the point list passed to the Heatmap
\* (a filter or a tag switch removed it, while viewing or while editing), no
\* marker is drawn as selected, no detail panel is rendered, edit mode is off,
\* and a Save request made in that situation adds no commit and changes no
\* description.
C22_StaleSelection ==
  (selectedTargetId # 0 /\ selectedTargetId \notin Ids(targetAreas)) =>
    /\ SelectedMarkers = {}
    /\ selectedTarget.id = 0
    /\ ~isEditing
    /\ ui.op = "staleSave" =>
         /\ Len(commits) = ui.ncommits
         /\ analysisTargets = ui.areas
         /\ selectedTargetId = ui.selected

C22_Witness ==
  /\ ui.op = "staleSave"
  /\ selectedTargetId = 1
  /\ selectedTargetId \notin Ids(targetAreas)
  /\ editDescription = "vein fill"
  /\ ~activeFilters.high
  /\ commits = <<>>
  /\ saves = 1

\* ------------------------------- containers with a zero or negative dimension
InvalidContainers ==
  {<<600, 0>>, <<0, 400>>, <<0, 0>>, <<-600, 400>>, <<600, -400>>, <<0, -400>>}

InitInvalid ==
  \E c \in InvalidContainers : InitWith(AnnotatePoints, c[1], c[2], "off")

\* the props change from one such container to another or to a valid one
NextInvalid ==
  \/ ResizeTo(InvalidContainers \cup {<<600, 400>>})
  \/ MouseDownAt({<<0, 0>>}) \/ MouseUp \/ MouseLeave \/ ContainerClick \/ ResetClick

SpecInvalid == InitInvalid /\ [][NextInvalid]_vars

\* C23 as claimed: also with a container whose width or height is zero or
\* negative, the viewBox is made of finite numbers and has a positive width and
\* a positive height.
C23_InvalidContainerGuarded ==
  /\ viewBox.x[2] > 0 /\ viewBox.y[2] > 0 /\ viewBox.w[2] > 0 /\ viewBox.h[2] > 0
  /\ viewBox.w[1] > 0 /\ viewBox.h[1] > 0

\* ------------------------------------- the density surface under zoom steps
\* a point of probability 1.0, a point that a zoom-in step leaves outside the
\* viewBox, and a point next to the first one
DensityPoints ==
  <<[id |-> 1, x |-> 45, y |-> 45, probability |-> 100, description |-> "d1"],
    [id |-> 2, x |-> 5,  y |-> 45, probability |-> 50,  description |-> "d2"],
    [id |-> 3, x |-> 46, y |-> 45, probability |-> 50,  description |-> "d3"]>>

DensitySets == {SubSeq(DensityPoints, 1, n) : n \in {1, 3}}

InitDensity ==
  \E areas \in DensitySets : InitWith(areas, 300, 300, "off")

NextDensity ==
  \/ MouseDownAt({<<0, 0>>}) \/ MouseMoveTo({<<12, 0>>}) \/ MouseUp
  \/ ContainerClick \/ ZoomClick \/ ResetClick

SpecDensity == InitDensity /\ [][NextDensity]_vars

\* the centre of a cell
cellCentre(c) == <<RAdd(c.x, RDiv(c.w, I(2))), RAdd(c.y, RDiv(c.h, I(2)))>>

\* the lower end of target.probability * Math.exp(-(dist * dist) / 100) at the
\* cell centre ctr
influenceLo(target, ctr) ==
  LET dx == RSub(ctr[1], I(target.x))
      dy == RSub(ctr[2], I(target.y))
  IN  RMul(R(target.probability, 100),
           expNegLo(RDiv(RAdd(RMul(dx, dx), RMul(dy, dy)), I(100))))

\* what the density claim requires of cell (i, j), c, with centre ctr, of the
\* grid over v
CellHoldsAt(c, i, j, v, ctr) ==
  /\ RMul(I(30), c.w) = v.w
  /\ RMul(I(30), c.h) = v.h
  /\ c.x = RAdd(v.x, RMul(I(i), c.w))
  /\ c.y = RAdd(v.y, RMul(I(j), c.h))
  /\ RLe(I(0), c.intensity.lo)
  /\ RLe(c.intensity.lo, c.intensity.hi)
  /\ RLe(c.intensity.hi, I(1))
  /\ \A k \in 1..Len(targetAreas) :
       LET t == targetAreas[k] IN
       /\ RLe(RMin(influenceLo(t, ctr), I(1)), c.intensity.lo)
       /\ (t.probability = 100 /\ ctr = <<I(t.x), I(t.y)>>)
            => c.intensity = [lo |-> I(1), hi |-> I(1)]

CellHolds(c, i, j, v) == CellHoldsAt(c, i, j, v, cellCentre(c))

\* and of the whole grid
GridHolds(cs, v) ==
  /\ Len(cs) = 900
  /\ \A i, j \in 0..29 : CellHolds(cs[i * 30 + j + 1], i, j, v)

\* C24: in every viewport the density field has 900 cells, cell (i, j) being the
\* rectangle of width w/30 and height h/30 at (x + i*w/30, y + j*h/30), so that
\* the cells tile the viewBox; every intensity lies in [0, 1]; every point of
\* the list, inside the viewBox or not, contributes its influence to every
\* cell; and a cell whose centre is a point of probability 1.0 has intensity 1.
C24_DensityField == GridHolds(cells, viewBox)

\* the centre of cell (i, j) of the grid over the rectangle v
centreOf(v, i, j) ==
  <<RAdd(v.x, RMul(R(2 * i + 1, 2 * gridSize), v.w)),
    RAdd(v.y, RMul(R(2 * j + 1, 2 * gridSize), v.h))>>

\* after a zoom-in step from the base rectangle: before it a cell centre was the
\* point of probability 1.0, after it point 2 is outside the viewBox and less
\* than 10 units away from a cell centre
C24_Witness ==
  /\ last.op = "zoom"
  /\ last.prev = base
  /\ RLt(viewBox.w, base.w)
  /\ Len(targetAreas) = 3
  /\ targetAreas[1].probability = 100
  /\ \E i, j \in 0..29 :
       centreOf(base, i, j) = <<I(targetAreas[1].x), I(targetAreas[1].y)>>
  /\ ~Contains(viewBox, targetAreas[2].x, targetAreas[2].y)
  /\ \E i, j \in 0..29 :
       LET ctr == centreOf(viewBox, i, j)
           dx  == RSub(ctr[1], I(targetAreas[2].x))
           dy  == RSub(ctr[2], I(targetAreas[2].y))
       IN  RLt(RAdd(RMul(dx, dx), RMul(dy, dy)), I(100))

\* the square of the Euclidean distance between two points
Dist2(p, n) == (n.x - p.x) * (n.x - p.x) + (n.y - p.y) * (n.y - p.y)

\* the distance between p and n is at most 0.08 * w
WithinOf(p, n, w) ==
  LET t == RMul(w, <<2, 25>>) IN Dist2(p, n) * t[2] * t[2] <= t[1] * t[1]

\* point sets around the threshold distances: (0,0)-(0,4) are 4 apart, which is
\* 0.08 * 50; (10,10)-(12,11) are sqrt(5) apart, between 0.08 * 20 and 0.08 * 50
SeedPositions == {<<0, 0>>, <<0, 4>>, <<10, 10>>, <<12, 11>>}

SeedSeqs ==
  UNION {{[i \in 1..n |-> Point(i, f[i])] : f \in [1..n -> SeedPositions]} : n \in 0..MaxPoints}

InitSeed == InitClusteringOf(SeedSeqs)

NextSeed == ChangeWidth

SpecSeed == InitSeed /\ [][NextSeed]_vars

\* C25: every member of a cluster other than its seed (the first member) has an
\* x not below the seed's and lies within 0.08 * viewBox.w of the seed; a set of
\* two points is one two-member cluster exactly when the two points are within
\* 0.08 * viewBox.w of each other; (10,10) and (12,11) are one cluster at width
\* 50 and two single points at width 20.
C25_SeedDistance ==
  LET cs == clusters IN
  /\ \A i \in 1..Len(cs) : \A m \in 2..Len(cs[i].points) :
       /\ cs[i].points[1].x <= cs[i].points[m].x
       /\ WithinOf(cs[i].points[1], cs[i].points[m], viewBox.w)
  /\ Len(targetAreas) = 2 =>
       IF WithinOf(targetAreas[1], targetAreas[2], viewBox.w)
         THEN Len(cs) = 1 /\ cs[1].isCluster /\ Members(cs[1]) = Ids(targetAreas)
         ELSE Len(cs) = 2 /\ ~cs[1].isCluster /\ ~cs[2].isCluster
  /\ targetAreas = <<Point(1, <<10, 10>>), Point(2, <<12, 11>>)>> =>
       /\ viewBox.w = I(50) => MultiCount(cs) = 2
       /\ viewBox.w = I(20) => (MultiCount(cs) = 0 /\ Len(cs) = 2)

\* (10,10) and (12,11), two single points at width 20 and one cluster after
\* the viewport got 50 wide
C25_Witness ==
  /\ last.op = "rewidth"
  /\ targetAreas = <<Point(1, <<10, 10>>), Point(2, <<12, 11>>)>>
  /\ last.w = I(20)
  /\ viewBox.w = I(50)
  /\ Len(last.clusters) = 2
  /\ Len(clusters) = 1

\* two points exactly 0.08 * 50 = 4 apart: one cluster at width 50
C25_WitnessEdge ==
  /\ Len(targetAreas) = 2
  /\ Dist2(targetAreas[1], targetAreas[2]) = 16
  /\ viewBox.w = I(50)
  /\ Len(clusters) = 1

\* ---------------------------------------------------------------------------
\* The gesture resolver alone, every handler recorded
InitResolver == InitWith(AnnotatePoints, 600, 400, "all")

NextResolver ==
  \/ MouseDownAt(NearPixels)
  \/ MouseMoveTo(NearPixels)
  \/ MouseUp
  \/ MouseLeave
  \/ ContainerClick

SpecResolver == InitResolver /\ [][NextResolver]_vars

\* C26: the resolver is Dragging only after a primary-button press (or a move
\* received while Dragging); a primary press leaves the accumulator at 0 and a
\* non-primary press leaves drag state, accumulator, recorded position and
\* viewBox as they were; a release or the pointer leaving ends in Idle; a move
\* received while Idle changes neither the viewBox nor the accumulator.
C26_GestureResolver ==
  /\ isDragging =>
       \/ ui.op = "mouseDown" /\ ui.button = 0
       \/ ui.op \in {"mouseMove", "mouseMoves"} /\ ui.dragging
  /\ (ui.op = "mouseDown" /\ ui.button = 0) =>
       /\ isDragging
       /\ dragDistanceRef = 0
       /\ dragStart = [x |-> ui.pixel[1], y |-> ui.pixel[2]]
  /\ (ui.op = "mouseDown" /\ ui.button # 0) =>
       /\ isDragging = ui.dragging
       /\ dragDistanceRef = ui.dist
       /\ dragStart = ui.start
       /\ viewBox = ui.box
  /\ ui.op \in {"mouseUp", "mouseLeave"} => ~isDragging
  /\ (ui.op \in {"mouseMove", "mouseMoves"} /\ ~ui.dragging) =>
       /\ ~isDragging
       /\ viewBox = ui.box
       /\ dragDistanceRef = ui.dist
       /\ dragStart = ui.start

\* a move received while Idle, after a drag that panned and was ended by the
\* pointer leaving: the viewBox stays panned, the accumulator stays at 5
C26_Witness ==
  /\ ui.op = "mouseMove" /\ ~ui.dragging
  /\ ui.pixel # <<ui.start.x, ui.start.y>>
  /\ last.op = "pan"
  /\ viewBox # last.prev
  /\ dragDistanceRef = 5
  /\ ~clickArmed

\* a non-primary press over an accumulator left at 5 by an earlier drag
C26_WitnessSecondary ==
  /\ ui.op = "mouseDown" /\ ui.button # 0
  /\ ui.dist = 5 /\ dragDistanceRef = 5
  /\ ~isDragging

\* ---------------------------------------------------------------------------
\* Two mousemove events handled by the same render. mousemove is a continuous
\* event: the state updates of its handler are rendered by a later task, so a
\* second event can arrive first, and its handler is then the one of the same
\* render, with the same isDragging, dragStart and viewBox in its closure. The
\* ref is current at once, the viewBox updaters run in order on the state they
\* receive, and the last setDragStart wins.
MouseMovesTo(pixels) ==
  /\ ~clickArmed
  /\ \E p1 \in pixels, p2 \in pixels :
       /\ IF ~isDragging
            THEN UNCHANGED <<viewBox, dragStart, dragDistanceRef, steps, last>>
            ELSE LET dx1  == p1[1] - dragStart.x
                     dy1  == p1[2] - dragStart.y
                     dx2  == p2[1] - dragStart.x
                     dy2  == p2[2] - dragStart.y
                     set1 == ~(dx1 = 0 /\ dy1 = 0)
                     set2 == ~(dx2 = 0 /\ dy2 = 0)
                     n    == (IF set1 THEN 1 ELSE 0) + (IF set2 THEN 1 ELSE 0)
                     mid  == IF set1 THEN panBy(viewBox, viewBox, dx1, dy1, width, height)
                             ELSE viewBox
                 IN  /\ dragDistanceRef' =
                          dragDistanceRef + Abs(dx1) + Abs(dy1) + Abs(dx2) + Abs(dy2)
                     /\ steps + n <= MaxSteps
                     /\ steps' = steps + n
                     /\ viewBox' = IF set2 THEN panBy(mid, viewBox, dx2, dy2, width, height)
                                   ELSE mid
                     /\ dragStart' = IF set2 THEN [x |-> p2[1], y |-> p2[2]]
                                     ELSE IF set1 THEN [x |-> p1[1], y |-> p1[2]]
                                     ELSE dragStart
                     /\ last' = IF set2 THEN [op |-> "pan", prev |-> mid, dx |-> dx2,
                                              dy |-> dy2, from |-> dragStart]
                                ELSE IF set1 THEN [op |-> "pan", prev |-> viewBox,
                                                   dx |-> dx1, dy |-> dy1, from |-> dragStart]
                                ELSE last
       /\ ui' = GestureLog("mouseMoves", 0, p2)
  /\ UNCHANGED <<targetAreas, width, height, isDragging, selectedTargetId, isEditing,
                 editDescription, clickArmed>>
  /\ UNCHANGED appVars

InitDragSplit == InitWith(AnnotatePoints, 600, 400, "all")

NextDragSplit ==
  \/ MouseDownAt(NearPixels)
  \/ MouseMoveTo(NearPixels)
  \/ MouseMovesTo(NearPixels)
  \/ MouseUp
  \/ MouseLeave
  \/ ContainerClick

SpecDragSplit == InitDragSplit /\ [][NextDragSplit]_vars

\* the viewBox after the pointer of a drag pressed at press.pixel arrived at
\* pixel p: the origin at press minus the pixel displacement times
\* viewBox extent / container extent, the size as at press
PannedFrom(press, p) ==
  [press.box EXCEPT
     !.x = RSub(press.box.x, RMul(I(p[1] - press.pixel[1]), RDiv(press.box.w, I(width)))),
     !.y = RSub(press.box.y, RMul(I(p[2] - press.pixel[2]), RDiv(press.box.h, I(height))))]

\* C27: after every move event of a drag, however the motion was split into
\* events and whether or not a render came between two of them, the viewBox is
\* the one at press translated by minus (Pn - P0) * (extent / container extent).
C27_IncrementalPan ==
  (ui.op \in {"mouseMove", "mouseMoves"} /\ ui.dragging /\ ui.press.set) =>
    viewBox = PannedFrom(ui.press, ui.pixel)

\* the same with a render between any two move events: one handler per render
C27_IncrementalPanRendered ==
  (ui.op = "mouseMove" /\ ui.dragging /\ ui.press.set) =>
    viewBox = PannedFrom(ui.press, ui.pixel)

\* a drag split into two rendered moves that ends 3 pixels right and 2 down
C27_RenderedWitness ==
  /\ ui.op = "mouseMove" /\ ui.dragging /\ ui.press.set
  /\ ui.press.pixel = <<0, 0>> /\ ui.pixel = <<3, 2>>
  /\ ui.start = [x |-> 3, y |-> 0]
  /\ steps = 2

\* ---------------------------------------------------------------------------
\* Wheel events of every size and direction, during a drag and during an edit
WheelDeltas28 == {<<-250, 1>>, <<-40, 1>>, <<0, 1>>, <<40, 1>>, <<250, 1>>}

InitWheel == InitWith(AnnotatePoints, 600, 400, "off")

NextWheel ==
  \/ WheelWith(WheelDeltas28, {<<0, 0>>, <<300, 200>>})
  \/ MouseDownAt({<<0, 0>>})
  \/ MouseMoveTo({<<3, 0>>})
  \/ MouseUp
  \/ ContainerClick
  \/ ClusterClick
  \/ EditClick
  \/ TypeOf({"vein fill"})

SpecWheel == InitWheel /\ [][NextWheel]_vars

\* 1 + sign(deltaY) * min(|deltaY|, 100) * 0.001
FactorOf(deltaY) ==
  RAdd(I(1), RMul(RMul(I(Sign(deltaY[1])), RMin(RAbs(deltaY), I(100))), <<1, 1000>>))

\* a step that handled a wheel event: only handleWheel records a wheel in last,
\* and every step that writes last counts one more in steps
WheelStep == steps' = steps + 1 /\ last'.op = "wheel"

\* C28: a wheel event rescales with factor 1 + sign(deltaY) * min(|deltaY|, 100)
\* * 0.001, which lies in [0.9, 1.1], is below 1 (zoom in: the viewBox does not
\* get wider) for deltaY < 0 and above 1 (zoom out: it does not get narrower)
\* for deltaY > 0; the new viewBox is that of the zoom around the cursor, and
\* drag state, recorded position, displacement accumulator, selected id, edit
\* mode and edit buffer are as before the event.
C28_WheelZoomsOnly ==
  [][WheelStep =>
       /\ last'.factor = FactorOf(last'.deltaY)
       /\ RLe(<<9, 10>>, last'.factor) /\ RLe(last'.factor, <<11, 10>>)
       /\ last'.deltaY[1] < 0 => (RLt(last'.factor, I(1)) /\ RLe(viewBox'.w, viewBox.w))
       /\ last'.deltaY[1] > 0 => (RLt(I(1), last'.factor) /\ RLe(viewBox.w, viewBox'.w))
       /\ last'.deltaY[1] = 0 => (last'.factor = I(1) /\ viewBox'.w = viewBox.w)
       /\ (~last'.widthClamped /\ ~last'.snapped) =>
            /\ viewBox'.w = RMul(viewBox.w, last'.factor)
            /\ viewBox'.h = RMul(viewBox.h, last'.factor)
       /\ UNCHANGED <<isDragging, dragStart, dragDistanceRef, selectedTargetId,
                      isEditing, editDescription, clickArmed, targetAreas, commits>>
    ]_vars

\* a wheel event with deltaY = -250 (factor 0.9) during a drag that moved 3
\* pixels, while point 1 is selected and its description is being edited
C28_Witness ==
  /\ last.op = "wheel"
  /\ last.deltaY = <<-250, 1>> /\ last.factor = <<9, 10>>
  /\ viewBox.w = I(135) /\ last.prev.w = I(150)
  /\ isDragging /\ dragDistanceRef = 3
  /\ selectedTargetId = 1 /\ isEditing /\ editDescription = "vein fill"

\* a wheel event with deltaY = 250 (factor 1.1) after one of deltaY = -250
C28_WitnessOut ==
  /\ last.op = "wheel" /\ last.before.op = "wheel"
  /\ last.deltaY = <<250, 1>> /\ last.factor = <<11, 10>>
  /\ last.before.deltaY = <<-250, 1>> /\ last.before.factor = <<9, 10>>
  /\ viewBox.w = <<297, 2>>
  /\ ~last.widthClamped /\ ~last.snapped

\* ---------------------------------------------------------------------------
\* Wheel events near the base width: a zoom-in of a twentieth of a percent, and
\* zoom-outs at and below the base width, with the viewBox panned or not
SnapContainers == {<<600, 400>>, <<400, 600>>, <<400, 400>>}

InitSnap == \E c \in SnapContainers : InitWith(AnnotatePoints, c[1], c[2], "off")

NextSnap ==
  \/ WheelWith({<<-1, 2>>, <<-40, 1>>, <<100, 1>>}, {<<0, 0>>, <<150, 100>>})
  \/ MouseDownAt({<<0, 0>>})
  \/ MouseMoveTo({<<30, 20>>})
  \/ MouseUp
  \/ MouseLeave
  \/ ContainerClick
  \/ ResetClick

SpecSnap == InitSnap /\ [][NextSnap]_vars

\* the width handleWheel arrives at: the previous one times the factor, at most
\* the base width, at least 2
ClampedWidth(prevW, deltaY, baseW) ==
  LET w0 == RMul(prevW, FactorOf(deltaY))
      w1 == IF RLt(baseW, w0) THEN baseW ELSE w0
  IN  IF RLt(w1, I(2)) THEN I(2) ELSE w1

\* C29: after a wheel zoom whose limited width is less than 0.1 away from the
\* base width, the viewBox is the base rectangle, wherever the cursor was and
\* however the viewBox was panned before; so it is after every zoom-out whose
\* scaled width is at least the base width.
C29_SnapToBase ==
  last.op = "wheel" =>
    LET b  == getBaseViewBox(width, height)
        cw == ClampedWidth(last.prev.w, last.deltaY, b.w)
    IN  /\ RLt(RAbs(RSub(cw, b.w)), <<1, 10>>) => viewBox = b
        /\ (last.deltaY[1] > 0 /\ RLe(b.w, RMul(last.prev.w, FactorOf(last.deltaY))))
             => viewBox = b

\* a wheel zoom-out with the cursor away from the corner, on a viewBox of base
\* size that a drag had panned: the result is the base rectangle
C29_Witness ==
  /\ last.op = "wheel" /\ last.deltaY = <<100, 1>>
  /\ <<last.mx, last.my>> = <<150, 100>>
  /\ last.prev.w = getBaseViewBox(width, height).w
  /\ last.prev.x # getBaseViewBox(width, height).x
  /\ last.prev.y # getBaseViewBox(width, height).y
  /\ viewBox = getBaseViewBox(width, height)

\* a wheel zoom-out by 1.1 from 96 percent of the base width, after a zoom-in
\* at the other cursor position: the scaled width exceeds the base width
C29_WitnessFromBelow ==
  /\ last.op = "wheel" /\ last.deltaY = <<100, 1>>
  /\ last.before.op = "wheel" /\ last.before.deltaY = <<-40, 1>>
  /\ <<last.mx, last.my>> # <<last.before.mx, last.before.my>>
  /\ RLt(last.prev.w, getBaseViewBox(width, height).w)
  /\ last.prev.x # getBaseViewBox(width, height).x
  /\ viewBox = getBaseViewBox(width, height)

\* a wheel zoom-in by 0.9995 from the base rectangle: the width would miss the
\* base width by less than 0.1, and the viewBox is the base rectangle
C29_WitnessNear ==
  /\ last.op = "wheel" /\ last.deltaY = <<-1, 2>>
  /\ last.prev = getBaseViewBox(width, height)
  /\ ClampedWidth(last.prev.w, last.deltaY, last.prev.w) # last.prev.w
  /\ viewBox = last.prev

\* ---------------------------------------------------------------------------
\* Containers of many shapes: landscape, portrait, square, nearly square, very
\* wide, very tall
ContainerShapes ==
  {<<600, 400>>, <<400, 600>>, <<400, 400>>, <<401, 400>>, <<400, 401>>,
   <<2000, 200>>, <<1, 1000>>, <<3, 7>>}

InitShapes == \E c \in ContainerShapes : InitWith(AnnotatePoints, c[1], c[2], "off")

NextShapes ==
  \/ ResizeTo(ContainerShapes)
  \/ MouseDownAt({<<0, 0>>})
  \/ MouseMoveTo({<<1, 1>>})
  \/ MouseUp
  \/ MouseLeave
  \/ ContainerClick
  \/ ResetClick

SpecShapes == InitShapes /\ [][NextShapes]_vars

\* C30: for a container of positive width and height the base rectangle has
\* the container's aspect ratio, its centre is (50, 50), it contains the square
\* [0,100] x [0,100], and its width or its height is 100 (no smaller rectangle
\* of that shape and centre contains the square).
C30_BaseRectangle ==
  (width > 0 /\ height > 0) =>
    LET b == getBaseViewBox(width, height)
    IN  /\ RDiv(b.w, b.h) = R(width, height)
        /\ RAdd(b.x, RDiv(b.w, I(2))) = I(50)
        /\ RAdd(b.y, RDiv(b.h, I(2))) = I(50)
        /\ RLe(b.x, I(0)) /\ RLe(I(100), RAdd(b.x, b.w))
        /\ RLe(b.y, I(0)) /\ RLe(I(100), RAdd(b.y, b.h))
        /\ b.w = I(100) \/ b.h = I(100)
        /\ RLe(I(100), b.w) /\ RLe(I(100), b.h)

\* a portrait container that took the place of a landscape one: the base
\* rectangle is 100 wide, higher than 100 and begins above the square
C30_Witness ==
  /\ last.op = "resize"
  /\ width < height /\ last.prev.w # I(100)
  /\ viewBox = getBaseViewBox(width, height)
  /\ viewBox.w = I(100) /\ RLt(I(100), viewBox.h)
  /\ viewBox.x = I(0) /\ RLt(viewBox.y, I(0))

\* ---------------------------------------------------------------------------
\* C31: right after edit mode is entered, the buffer is the description the
\* selected point has at that moment, whatever was selected, typed, saved,
\* cancelled or deselected before; the same holds whenever a point is viewed
\* with edit mode off, which is the state every entry starts from.
C31_BufferSeeded ==
  /\ ui.op = "edit" =>
       /\ isEditing
       /\ selectedTarget.id = selectedTargetId /\ selectedTargetId # 0
       /\ editDescription = selectedTarget.description
       /\ ui.buffer = editDescription
  /\ (selectedTarget.id # 0 /\ ~isEditing) =>
       editDescription = selectedTarget.description

\* edit mode entered for a point after a text typed for another point was
\* saved: the buffer is not that text
C31_Witness ==
  /\ ui.op = "edit"
  /\ Len(commits) = 1
  /\ commits[1][1] # selectedTargetId
  /\ commits[1][2] # editDescription
  /\ isEditing

\* edit mode entered again for the point whose saved text is now its description
C31_WitnessSame ==
  /\ ui.op = "edit"
  /\ Len(commits) = 1
  /\ commits[1] = <<selectedTargetId, editDescription>>

\* ---------------------------------------------------------------------------
\* what a click on a single-member cluster leaves behind: that member selected,
\* the viewBox and the owner's list as found
SingleMemberClicked ==
  /\ viewBox = ui.box /\ steps = ui.steps
  /\ \E c \in Range(clustersOf(targetAreas, ui.box.w)) :
       ~c.isCluster /\ selectedTargetId = c.points[1].id
  /\ Len(commits) = ui.ncommits /\ analysisTargets = ui.areas

\* what a click on a multi-member cluster leaves behind: the drill-down
\* rectangle of that cluster, the selection state and the owner's list as found
MultiMemberClicked ==
  /\ steps = ui.steps + 1
  /\ last.op = "drillDown" /\ last.prev = ui.box
  /\ last.cluster \in Range(clustersOf(targetAreas, ui.box.w))
  /\ last.cluster.isCluster
  /\ viewBox = drillDown(last.cluster, width, height)
  /\ selectedTargetId = ui.selected
  /\ isEditing = ui.editing /\ editDescription = ui.buffer
  /\ Len(commits) = ui.ncommits /\ analysisTargets = ui.areas

\* C32 as stated: a click on a cluster after less than 5 pixels of movement
\* either selects the single member with edit mode off and the viewBox as
\* found, or drills down with the selection state as found; the selection is
\* never cleared by the same click.
C32_OneActionEditOff ==
  (ui.op = "clusterClick" /\ ui.dist < 5) =>
    \/ SingleMemberClicked /\ ~isEditing
    \/ MultiMemberClicked

\* C32: a click on a cluster after less than 5 pixels of movement either
\* selects the single member with the viewBox as found - with edit mode off
\* when that member was not the selected point, and with edit mode and buffer
\* as found when it already was - or drills down with the selection state as
\* found; the selection is never cleared by the same click.
C32_OneAction ==
  (ui.op = "clusterClick" /\ ui.dist < 5) =>
    \/ /\ SingleMemberClicked
       /\ IF selectedTargetId = ui.selected
            THEN isEditing = ui.editing /\ editDescription = ui.buffer
            ELSE ~isEditing /\ editDescription = selectedTarget.description
    \/ MultiMemberClicked

\* a click on the marker of another point while a point was being edited
C32_Witness ==
  /\ ui.op = "clusterClick" /\ ui.dist < 5
  /\ ui.editing /\ ui.selected # 0
  /\ SingleMemberClicked
  /\ selectedTargetId # ui.selected
  /\ ~isEditing

\* a drill-down while a point was being edited
C32_WitnessDrill ==
  /\ ui.op = "clusterClick" /\ ui.dist < 5
  /\ ui.editing /\ ui.buffer # selectedTarget.description
  /\ MultiMemberClicked
  /\ viewBox # ui.box
  /\ isEditing

\* a click on the marker of the point that is being edited
C32_WitnessSame ==
  /\ ui.op = "clusterClick" /\ ui.dist < 5
  /\ ui.editing
  /\ SingleMemberClicked
  /\ selectedTargetId = ui.selected
  /\ isEditing

\* ---------------------------------------------------------------------------
\* the owner's handler called with any id and text: setAnalysisResult with the
\* mapped list, after which the dashboard filters the list again and the
\* Heatmap's selection effect sees the new point objects
UpdateTarget(ids, texts) ==
  /\ ~clickArmed /\ ~isDragging
  /\ saves <= MaxCommits
  /\ \E id \in ids, text \in texts :
       LET owner == handleUpdateTargetDescription(analysisTargets, id, text)
           shown == displayedTargets(owner, activeFilters, disabledTags)
       IN  /\ analysisTargets' = owner
           /\ targetAreas' = shown
           /\ SelectionEffect(shown, FALSE)
           /\ last' = [op |-> "update", id |-> id, text |-> text]
  /\ saves' = saves + 1
  /\ ui' = Log("update")
  /\ UNCHANGED <<width, height, viewBox, isDragging, dragStart, dragDistanceRef,
                 selectedTargetId, clickArmed, steps, activeFilters, disabledTags,
                 commits>>

\* points as the analysis delivers them, with the optional reasoning
OwnerPoints ==
  <<[id |-> 1, x |-> 50, y |-> 50, probability |-> 90, description |-> "d1",
     reasoning |-> "r1"],
    [id |-> 2, x |-> 50, y |-> 10, probability |-> 50, description |-> "d2",
     reasoning |-> "r2"],
    [id |-> 4, x |-> 50, y |-> 5, probability |-> 20, description |-> "d4",
     reasoning |-> ""]>>

OwnerLists ==
  {<<>>, <<OwnerPoints[1]>>, <<OwnerPoints[2], OwnerPoints[1]>>, OwnerPoints}

OwnerIds == {0, 1, 2, 3}

InitOwner == \E list \in OwnerLists : InitWith(list, 600, 400, "init")

NextOwner ==
  \/ UpdateTarget(OwnerIds, Texts)
  \/ MouseDownAt({<<0, 0>>}) \/ MouseUp \/ ClusterClick
  \/ EditClick \/ TypeOf({"new text"}) \/ SaveClick

SpecOwner == InitOwner /\ [][NextOwner]_vars

\* the list after a commit (id, text) against the list before it: same length,
\* same ids in the same places, every field but the description as before, the
\* description replaced exactly where the id matches
OnlyDescriptionOf(before, after, id, text) ==
  /\ Len(after) = Len(before)
  /\ \A i \in 1..Len(before) :
       /\ after[i].id = before[i].id
       /\ after[i].x = before[i].x /\ after[i].y = before[i].y
       /\ after[i].probability = before[i].probability
       /\ after[i].reasoning = before[i].reasoning
       /\ DOMAIN after[i] = DOMAIN before[i]
       /\ after[i].description =
            IF before[i].id = id THEN text ELSE before[i].description
  /\ (id \notin Ids(before)) => after = before

\* C33: a commit (id, text), whether made by Save or handed to the owner with
\* any id, changes only the description of the point with that id: ids, number
\* of points, x, y, probability, reasoning and every other description are as
\* before, and an id that matches no point changes nothing.
C33_CommitFrame ==
  /\ (ui.op = "update" /\ last.op = "update") =>
       OnlyDescriptionOf(ui.areas, analysisTargets, last.id, last.text)
  /\ (ui.op = "save" /\ Len(commits) = ui.ncommits + 1) =>
       /\ commits[Len(commits)][1] \in Ids(ui.areas)
       /\ OnlyDescriptionOf(ui.areas, analysisTargets,
                            commits[Len(commits)][1], commits[Len(commits)][2])

\* a commit for point 2 of three points: only its description differs
C33_Witness ==
  /\ ui.op = "update" /\ last.op = "update"
  /\ last.id = 2 /\ Len(ui.areas) = 3
  /\ analysisTargets # ui.areas
  /\ {i \in 1..3 : analysisTargets[i] # ui.areas[i]} = {2}

\* a commit whose id matches no point of a list of three
C33_WitnessNoMatch ==
  /\ ui.op = "update" /\ last.op = "update"
  /\ last.id = 3 /\ Len(ui.areas) = 3
  /\ analysisTargets = ui.areas

\* a commit made by Save
C33_WitnessSave ==
  /\ ui.op = "save" /\ Len(commits) = ui.ncommits + 1
  /\ analysisTargets # ui.areas

\* ---------------------------------------------------------------------------
\* the text typed into the textarea while the point with the given id is edited
TypedFor(id) ==
  CASE id = 1 -> "note on 1"
    [] id = 2 -> "note on 2"
    [] OTHER  -> "note on 4"

InitTyped == InitWith(AnnotatePoints, 600, 400, "init")

NextTyped ==
  \/ MouseDownAt({<<0, 0>>}) \/ MouseUp \/ ContainerClick \/ ClusterClick
  \/ EditClick \/ TypeOf({TypedFor(selectedTargetId)})
  \/ SaveClick \/ CancelClick \/ CloseClick \/ ToggleFilter \/ SaveRequest

SpecTyped == InitTyped /\ [][NextTyped]_vars

\* the description a point has before any commit
DescriptionAtStart(id) == selectedTargetOf(AnnotatePoints, id).description

\* C34: every commit carries the id that is selected when Save runs and the
\* buffer of that moment, and that text is the one typed while this very point
\* was edited (or its own description when nothing was typed): after the
\* selection has moved from a point being edited to another point, the buffer
\* holds nothing typed for the first one, and no commit delivers it.
C34_CommitOwnText ==
  /\ \A k \in 1..Len(commits) :
       /\ commits[k][1] \in Ids(AnnotatePoints)
       /\ commits[k][2] \in {TypedFor(commits[k][1]), DescriptionAtStart(commits[k][1])}
  /\ (ui.op = "save" /\ Len(commits) = ui.ncommits + 1) =>
       /\ commits[Len(commits)] = <<ui.selected, ui.buffer>>
       /\ ui.editing
       /\ selectedTargetId = ui.selected
  /\ selectedTarget.id # 0 =>
       editDescription \in {selectedTarget.description, TypedFor(selectedTargetId)}

\* the selection moves to another point while a typed text is in the buffer
C34_Witness ==
  /\ ui.op = "clusterClick"
  /\ ui.editing /\ ui.selected = 1 /\ ui.buffer = TypedFor(1)
  /\ selectedTargetId = 2 /\ selectedTarget.id = 2
  /\ editDescription = "d2"

\* a commit for the second point selected, with the text typed for it
C34_WitnessCommit ==
  /\ ui.op = "save"
  /\ commits = <<<<2, TypedFor(2)>>>>
  /\ DescriptionAtStart(1) = selectedTargetOf(analysisTargets, 1).description

\* ---------------------------------------------------------------------------
\* C35: in every state between two handlers (the effects of the last render
\* have run) edit mode is on only while a point is selected whose id is in the
\* point list passed to the Heatmap: never with nothing selected, never with a
\* selected id that the list no longer holds.
C35_EditingNeedsPoint ==
  isEditing =>
    /\ selectedTargetId # 0
    /\ selectedTargetId \in Ids(targetAreas)
    /\ selectedTarget.id = selectedTargetId

\* the filter that hides the point being edited ends edit mode
C35_Witness ==
  /\ ui.op = "filter"
  /\ ui.editing /\ ui.selected # 0
  /\ selectedTargetId = ui.selected
  /\ selectedTargetId \notin Ids(targetAreas)
  /\ ~isEditing

\* edit mode on while another point is hidden by a filter
C35_WitnessEditing ==
  /\ isEditing
  /\ Len(targetAreas) < Len(analysisTargets)
  /\ editDescription # selectedTarget.description

\* ---------------------------------------------------------------------------
\* selection, editing and the three viewport controls
InitControls == InitWith(AnnotatePoints, 600, 400, "init")

NextControls ==
  \/ MouseDownAt({<<0, 0>>}) \/ MouseUp \/ ClusterClick
  \/ EditClick \/ TypeOf({"new text"})
  \/ ZoomClick \/ ResetClick

SpecControls == InitControls /\ [][NextControls]_vars

\* C36: a click on the zoom-in, zoom-out or reset control leaves the selected
\* id, the edit-mode flag and the edit buffer as it found them; only the
\* viewBox can differ.
C36_ControlsKeepSelection ==
  ui.op \in {"zoomClick", "resetClick"} =>
    /\ selectedTargetId = ui.selected
    /\ isEditing = ui.editing
    /\ editDescription = ui.buffer
    /\ analysisTargets = ui.areas /\ Len(commits) = ui.ncommits

\* ---------------------------------------------------------------------------
\* one zoom button clicked again and again; ui.factor is the button's factor
ZoomAgain ==
  /\ clickArmed
  /\ clickArmed' = FALSE
  /\ viewBox' = handleZoom(viewBox, ui.factor, width, height)
  /\ last' = [op |-> "zoom", prev |-> viewBox, factor |-> ui.factor]
  /\ ContainerClickEffect
  /\ ui' = Log("zoomClick")
  /\ UNCHANGED <<targetAreas, width, height, isDragging, dragStart, dragDistanceRef,
                 steps>>
  /\ UNCHANGED appVars

RepeatContainers == {<<600, 400>>, <<400, 600>>, <<400, 400>>}

\* the rectangles of the drill-downs into the clusters of the base view
DrillBoxes(areas, wd, ht) ==
  {drillDown(c, wd, ht) :
     c \in {k \in Range(clustersOf(areas, getBaseViewBox(wd, ht).w)) : k.isCluster}}

\* a rectangle that wheel steps at pixel (0, 0) have narrowed to the floor of 2
WheelFloor(box, wd, ht) ==
  [box EXCEPT !.w = I(2), !.h = RDiv(I(2), aspectOf(wd, ht))]

\* the viewBoxes the clicks start from: for zoom-out the base rectangle and the
\* rectangles one and two zoom-in clicks away from it, for zoom-in the
\* drill-down rectangles and a rectangle at the floor width
RepeatStarts(factor, areas, wd, ht) ==
  IF factor = ZoomOutFactor
    THEN {getBaseViewBox(wd, ht)} \cup StartBoxes(wd, ht)
    ELSE DrillBoxes(areas, wd, ht)
           \cup {WheelFloor(b, wd, ht) : b \in DrillBoxes(areas, wd, ht)}

InitRepeat ==
  /\ targetAreas = AnnotatePoints
  /\ \E c \in RepeatContainers : width = c[1] /\ height = c[2]
  /\ \E factor \in {ZoomInFactor, ZoomOutFactor} :
       /\ viewBox \in RepeatStarts(factor, targetAreas, width, height)
       /\ ui = [op |-> "off", all |-> FALSE, factor |-> factor]
  /\ isDragging = FALSE
  /\ dragStart = [x |-> 0, y |-> 0]
  /\ dragDistanceRef = 0
  /\ selectedTargetId = 0
  /\ isEditing = FALSE
  /\ editDescription = ""
  /\ clickArmed = FALSE
  /\ steps = 0
  /\ last = [op |-> "init"]
  /\ AppInit

NextRepeat == MouseDownAt({<<0, 0>>}) \/ MouseUp \/ ZoomAgain

\* the steps of the three handlers, told apart by the flags they switch
Pressed   == ~isDragging /\ ~clickArmed /\ isDragging' = TRUE
Released  == isDragging /\ isDragging' = FALSE
Delivered == clickArmed /\ clickArmed' = FALSE

\* the button is pressed, released and clicked for ever: a press that is
\* possible is made, a button that is down is released, and the click that
\* follows the release reaches the button's handler
SpecRepeat ==
  /\ InitRepeat /\ [][NextRepeat]_vars
  /\ WF_isDragging(Pressed) /\ WF_isDragging(Released) /\ WF_clickArmed(Delivered)

\* a zoom-out step gives the base rectangle or a rectangle 1.33 times as wide
\* that is no wider than the base; a zoom-in step gives the base rectangle, a
\* rectangle 0.75 times as wide and at least 2 wide, or the rectangle itself
ZoomStepBounded ==
  LET b   == getBaseViewBox(width, height)
      out == handleZoom(viewBox, ZoomOutFactor, width, height)
      in  == handleZoom(viewBox, ZoomInFactor, width, height)
  IN  /\ \/ out = b
         \/ out.w = RMul(viewBox.w, ZoomOutFactor) /\ RLt(viewBox.w, out.w)
              /\ RLe(out.w, b.w)
      /\ \/ in = b
         \/ in.w = RMul(viewBox.w, ZoomInFactor) /\ RLt(in.w, viewBox.w)
              /\ RLe(I(2), in.w)
         \/ in = viewBox /\ RLe(I(2), viewBox.w)

\* the rectangle that clicks on the zoom-in button no longer change
ZoomInSettled ==
  /\ handleZoom(viewBox, ZoomInFactor, width, height) = viewBox
  /\ RLe(I(2), viewBox.w)
  /\ RLt(viewBox.w, getBaseViewBox(width, height).w)

\* C37: clicks on the zoom-out button, repeated, reach the base rectangle after
\* finitely many clicks and every further click leaves it there; clicks on the
\* zoom-in button, repeated, reach after finitely many clicks a rectangle that
\* further clicks leave unchanged, whose width is at least 2.
C37_ZoomTerminates ==
  /\ []ZoomStepBounded
  /\ <>[](ui.factor = ZoomOutFactor => viewBox = getBaseViewBox(width, height))
  /\ <>[](ui.factor = ZoomInFactor => ZoomInSettled)

\* the base rectangle reached by a zoom-out click from a narrower rectangle
\* that is itself the result of a zoom-out click
C37_Witness ==
  /\ ui.factor = ZoomOutFactor
  /\ last.op = "zoom"
  /\ viewBox = getBaseViewBox(width, height)
  /\ last.prev # viewBox
  /\ last.prev \notin RepeatStarts(ZoomOutFactor, targetAreas, width, height)

\* a zoom-in click that changed nothing, after clicks that narrowed the rectangle
C37_WitnessIn ==
  /\ ui.factor = ZoomInFactor
  /\ last.op = "zoom"
  /\ last.prev = viewBox
  /\ ZoomInSettled
  /\ RLt(I(2), viewBox.w)

\* ---------------------------------------------------------------------------
\* points whose positions are given in tenths of a data unit: (50, 50),
\* (50.1, 50) and (52, 50)
FinePoints ==
  <<[id |-> 1, x |-> 500, y |-> 500, probability |-> 90, description |-> "d1"],
    [id |-> 2, x |-> 501, y |-> 500, probability |-> 50, description |-> "d2"],
    [id |-> 3, x |-> 520, y |-> 500, probability |-> 20, description |-> "d4"]>>

\* the clusters of points given in tenths: the same loops, the distance in
\* tenths compared with the threshold in tenths
FineClustersOf(areas, w) ==
  BuildClusters(SortByX(areas), 1, {}, <<>>, RMul(Threshold(w), I(10)))

\* the multi-member branch of handleClusterClick for points given in tenths
FineDrillDown(cluster, wd, ht) ==
  LET a        == aspectOf(wd, ht)
      minX     == FoldMin(XsOf(cluster.points), 1, 1000)
      maxX     == FoldMax(XsOf(cluster.points), 1, 0)
      minY     == FoldMin(YsOf(cluster.points), 1, 1000)
      maxY     == FoldMax(YsOf(cluster.points), 1, 0)
      clusterW == R(maxX - minX, 10)
      clusterH == R(maxY - minY, 10)
      half     == RDiv(RMax(clusterW, clusterH), I(2))
      pad      == IF half = I(0) THEN I(10) ELSE half
      targetW0 == RMax(RAdd(clusterW, pad), I(10))
      targetH0 == RMax(RAdd(clusterH, pad), I(10))
      dim      == RMax(targetW0, targetH0)
      targetX  == RSub(R(minX + maxX, 20), RDiv(dim, I(2)))
      targetY  == RSub(R(minY + maxY, 20), RDiv(dim, I(2)))
      targetW  == IF RLt(I(1), a) THEN RMul(targetH0, a) ELSE targetW0
      targetH  == IF RLt(I(1), a) THEN targetH0 ELSE RDiv(targetW0, a)
  IN  [x |-> targetX, y |-> targetY, w |-> targetW, h |-> targetH]

\* handleClusterClick on the markers of points given in tenths
FineClusterClick ==
  /\ clickArmed
  /\ clickArmed' = FALSE
  /\ \E cluster \in Range(FineClustersOf(targetAreas, viewBox.w)) :
       IF dragDistanceRef > 5
         THEN UNCHANGED <<viewBox, selectedTargetId, isEditing, editDescription, last>>
         ELSE IF ~cluster.isCluster
           THEN /\ SetSelected(cluster.points[1].id)
                /\ UNCHANGED <<viewBox, last>>
           ELSE /\ viewBox' = FineDrillDown(cluster, width, height)
                /\ last' = [op |-> "drillDown", prev |-> viewBox, cluster |-> cluster]
                /\ UNCHANGED <<selectedTargetId, isEditing, editDescription>>
  /\ UNCHANGED <<targetAreas, width, height, isDragging, dragStart, dragDistanceRef,
                 steps>>
  /\ ui' = Log("clusterClick")
  /\ UNCHANGED appVars

\* the viewBoxes the runs start from: the base rectangle, the drill-down into
\* the cluster of the base view, and that rectangle at the floor width of the
\* wheel
FineStarts(areas, wd, ht) ==
  LET b     == getBaseViewBox(wd, ht)
      drill == {FineDrillDown(c, wd, ht) :
                  c \in {k \in Range(FineClustersOf(areas, b.w)) : k.isCluster}}
  IN  {b} \cup drill \cup {WheelFloor(d, wd, ht) : d \in drill}

InitFine ==
  /\ targetAreas = FinePoints
  /\ width = 600 /\ height = 400
  /\ viewBox \in FineStarts(targetAreas, width, height)
  /\ isDragging = FALSE
  /\ dragStart = [x |-> 0, y |-> 0]
  /\ dragDistanceRef = 0
  /\ selectedTargetId = 0
  /\ isEditing = FALSE
  /\ editDescription = ""
  /\ clickArmed = FALSE
  /\ steps = 0
  /\ last = [op |-> "init"]
  /\ AppInit
  /\ ui = [op |-> "off", all |-> FALSE]

NextFine ==
  \/ WheelWith({<<-100, 1>>, <<100, 1>>}, {<<0, 0>>, <<300, 200>>})
  \/ MouseDownAt({<<0, 0>>}) \/ MouseMoveTo({<<30, 20>>}) \/ MouseUp
  \/ FineClusterClick \/ ZoomClick

\* one more wheel, pan or zoom-button operation
Operated == steps < MaxSteps /\ steps' = steps + 1

\* the user zooms with wheel and buttons and pans while the bound allows it,
\* and presses, releases and clicks on markers for ever: a drill-down leads to
\* one of finitely many rectangles, so these clicks are not counted
SpecFine ==
  /\ InitFine /\ [][NextFine]_vars
  /\ WF_steps(Operated)
  /\ WF_isDragging(Pressed) /\ WF_isDragging(Released) /\ WF_clickArmed(Delivered)

\* the point with the given id has a marker of its own
SingleMember(id) ==
  \E c \in Range(FineClustersOf(targetAreas, viewBox.w)) :
    ~c.isCluster /\ c.points[1].id = id

\* points 1 and 2 are members of one cluster
PairLocked ==
  \E c \in Range(FineClustersOf(targetAreas, viewBox.w)) :
    c.isCluster /\ {1, 2} \subseteq Ids(c.points)

\* what every run of SpecFine keeps: the width is at least 2 and the two
\* points 0.1 apart share a cluster
LockedAtEveryWidth == RLe(I(2), viewBox.w) /\ PairLocked

\* C38: every point of a set with pairwise distinct positions gets a marker of
\* its own at some moment of a run that zooms in, pans and drills down.
C38_EveryPointSelectable ==
  \A id \in {1, 2, 3} : <>SingleMember(id)

\* ---------------------------------------------------------------------------
\* C39: a wheel event with deltaY < 0 on a viewBox wider than 2 leaves a
\* viewBox that is strictly narrower, whatever the size of deltaY and also
\* when the viewBox it found was the base rectangle.
C39_WheelInNarrows ==
  (last.op = "wheel" /\ last.deltaY[1] < 0 /\ RLt(I(2), last.prev.w)) =>
    RLt(viewBox.w, last.prev.w)

====
